---- MODULE Spec2Model ----
(***************************************************************************)
(* Model of the level codec of reggie.py (class LevelUnit and the editor   *)
(* items it serialises): the course block table, the per-block record      *)
(* codecs, the zone lookup and the editor operations that feed them.       *)
(* Byte strings are sequences of 0..255; struct formats are big-endian.    *)
(***************************************************************************)
EXTENDS Integers, Sequences, FiniteSets, TLC

VARIABLES
    pc,          \* position of the document: "new", "edit", "loaded", "loaderror",
                 \* "zonessaved" (inside save, after SaveZones), "saved",
                 \* "input", "split", "joined" (block table steps)
    input,       \* course file bytes handed to loadLevelData
    course,      \* course file bytes built by save
    blocks,      \* self.blocks: 0..13 -> byte string
    rddata,      \* metadata bytes found between 0x70 and block 0 on load
    info,        \* Creator/Title/Author/Group/Webpage/Password
    tilesets,    \* tileset0..tileset3
    options,     \* defEvents halves, wrapFlag, timeLimit, unk1, startEntrance, unk2, unk3
    entrances,   \* self.entrances
    sprites,     \* self.sprites
    zones,       \* self.zones
    bounding,    \* self.bounding (decoded block 2)
    bgA,         \* self.bgA (decoded block 4)
    bgB,         \* self.bgB (decoded block 5)
    locations,   \* self.locations
    camprofiles, \* self.camprofiles
    pathdata,    \* self.pathdata
    bgdat,       \* the three layer files of the archive (course_bgdatL0..L2.bin)
    layers,      \* self.layers
    ObjectDefinitions,       \* global ObjectDefinitions: slot 0..3 -> object list
    TilesetSlotsModEnabled,  \* global setting
    deffile,     \* definition file bytes handed to ObjectDef.load
    objdef,      \* what ObjectDef.load made of deffile
    objdata,     \* the last RenderObject call and what it returned
    Dirty,             \* global Dirty: the level has unsaved changes
    AutoSaveDirty,     \* global AutoSaveDirty: changes since the last autosave
    DirtyOverride,     \* global DirtyOverride: SetDirty does nothing while it is > 0
    OverrideSnapping,  \* global OverrideSnapping
    isCompressed,      \* Level.isCompressed
    arcname,           \* Level.arcname: the name of the level file, or None
    disk,              \* the files of the Stage folder: name -> file
    AutoSaveSettings,  \* the settings AutoSaveFilePath and AutoSaveFileData
    scene,             \* mainWindow.scene: "level" while it holds the items of the
                       \* lists of Level, "clear" after scene.clear()
    ret                \* the last handler of the window that the user did not
                       \* cancel, and what it returned

vars == <<pc, input, course, blocks, rddata, info, tilesets, options, entrances,
          sprites, zones, bounding, bgA, bgB, locations, camprofiles, pathdata,
          bgdat, layers, ObjectDefinitions, TilesetSlotsModEnabled, deffile, objdef,
          objdata, Dirty, AutoSaveDirty, DirtyOverride, OverrideSnapping, isCompressed,
          arcname, disk, AutoSaveSettings, scene, ret>>

objvars == <<bgdat, layers, ObjectDefinitions, TilesetSlotsModEnabled, deffile, objdef,
             objdata>>

recvars == <<info, tilesets, options, entrances, sprites, zones, bounding, bgA, bgB,
             locations, camprofiles, pathdata>>

winvars == <<Dirty, AutoSaveDirty, DirtyOverride, OverrideSnapping, isCompressed, arcname,
             disk, AutoSaveSettings, scene, ret>>

-----------------------------------------------------------------------------
(* Bounds of the model *)

MaxMetaLen == 5
MaxBlockLen == 2

-----------------------------------------------------------------------------
(* Byte-string helpers: struct.pack / struct.unpack_from, big-endian *)

Zeros(n) == [i \in 1..n |-> 0]

Fill(n, v) == [i \in 1..n |-> v]

RECURSIVE Concat(_)
Concat(ss) == IF ss = <<>> THEN <<>> ELSE Head(ss) \o Concat(Tail(ss))

RECURSIVE SumLen(_)
SumLen(ss) == IF ss = <<>> THEN 0 ELSE Len(Head(ss)) + SumLen(Tail(ss))

Min(a, b) == IF a < b THEN a ELSE b

Max(a, b) == IF a > b THEN a ELSE b

\* Python slice b[lo:hi] with 0 <= lo, hi (clamped to the buffer)
Slice(b, lo, hi) ==
    LET h == Min(hi, Len(b))
    IN  IF lo >= h THEN <<>> ELSE [i \in 1..(h - lo) |-> b[lo + i]]

\* struct.pack_into / buffer[off:off+n] = bytes: overwrite bytes at 0-based off
PackInto(buf, off, bytes) ==
    [i \in 1..Len(buf) |->
        IF i > off /\ i <= off + Len(bytes) THEN bytes[i - off] ELSE buf[i]]

PackB(v) == <<v>>

PackH(v) == <<v \div 256, v % 256>>

\* 'h': signed 16 bit, two's complement
Packh(v) == PackH(IF v < 0 THEN v + 65536 ELSE v)

\* 'I' / 'L': unsigned 32 bit (values below 2^31 in the model)
PackI(v) == <<v \div 16777216, (v \div 65536) % 256, (v \div 256) % 256, v % 256>>

\* 'l': signed 32 bit, two's complement
Packl(v) ==
    IF v >= 0 THEN PackI(v)
    ELSE LET u == v + 2147483647 + 1
         IN  <<128 + (u \div 16777216), (u \div 65536) % 256, (u \div 256) % 256, u % 256>>

UnpackB(b, off) == b[off + 1]

UnpackH(b, off) == b[off + 1] * 256 + b[off + 2]

Unpackh(b, off) ==
    LET u == UnpackH(b, off) IN IF u >= 32768 THEN u - 65536 ELSE u

UnpackI(b, off) ==
    b[off + 1] * 16777216 + b[off + 2] * 65536 + b[off + 3] * 256 + b[off + 4]

Unpackl(b, off) ==
    LET t == b[off + 1]
        top == IF t >= 128 THEN t - 256 ELSE t
    IN  top * 16777216 + b[off + 2] * 65536 + b[off + 3] * 256 + b[off + 4]

-----------------------------------------------------------------------------
(* Course block table: the split in loadLevelData, the join in save *)

BlockIdx == 0..13

NoBlocks == [i \in BlockIdx |-> <<>>]

\* loadLevelData: the 14 (offset, length) pairs and the slices they address
CourseSplit(c) ==
    [i \in BlockIdx |->
        LET off == UnpackI(c, i * 8)
            len == UnpackI(c, i * 8 + 4)
        IN  IF len = 0 THEN <<>> ELSE Slice(c, off, off + len)]

\* a loader that does not read the metadata region
CourseMetadataSkipped(c) == <<>>

\* loadLevelData: the editor metadata between 0x70 and the start of block 0
CourseMetadata(c) ==
    LET block1pos == UnpackI(c, 0)
    IN  IF block1pos # 112 THEN Slice(c, 112, block1pos) ELSE <<>>

\* a save that writes the metadata as it is
PadMetadataNone(rdata) == rdata

\* save: pad the metadata to a multiple of 4
PadMetadata(rdata) ==
    IF Len(rdata) % 4 # 0 THEN rdata \o Zeros(4 - (Len(rdata) % 4)) ELSE rdata

\* save: the loop over self.blocks writing header entry i and the block bytes;
\* the next pass starts from the value b of the buffer after this one
RECURSIVE JoinLoop(_, _, _, _, _)
JoinLoop(buf, blks, i, HeaderOffset, FileOffset) ==
    IF i > 13 THEN buf
    ELSE LET block == blks[i]
             blocksize == Len(block)
             hdr == PackInto(buf, HeaderOffset, PackI(FileOffset) \o PackI(blocksize))
             body == IF blocksize > 0 THEN PackInto(hdr, FileOffset, block) ELSE hdr
         IN  CHOOSE r \in {JoinLoop(b, blks, i + 1, HeaderOffset + 8, FileOffset + blocksize) :
                               b \in {body}} : TRUE

\* save: build the course file from the blocks and the metadata
CourseJoin(blks, rdata0) ==
    LET rdata == PadMetadata(rdata0)
        FileLength == (14 * 8) + Len(rdata) + SumLen([i \in 1..14 |-> blks[i - 1]])
        buf0 == PackInto(Zeros(FileLength), 112, rdata)
    IN  JoinLoop(buf0, blks, 0, 0, (14 * 8) + Len(rdata))

-----------------------------------------------------------------------------
(* Tileset names and options: blocks 0 and 1 *)

\* bytes.ljust(n, b'\0')
LJust(b, n) == IF Len(b) >= n THEN b ELSE b \o Zeros(n - Len(b))

\* bytes.strip(b'\0'): drop leading and trailing zero bytes
StripZeros(b) ==
    LET nonzero == {i \in 1..Len(b) : b[i] # 0}
    IN  IF nonzero = {} THEN <<>>
        ELSE SubSeq(b, CHOOSE i \in nonzero : \A j \in nonzero : i <= j,
                       CHOOSE i \in nonzero : \A j \in nonzero : i >= j)

SaveMetadata(ts) == Concat([i \in 1..4 |-> LJust(ts[i], 32)])

LoadMetadata(b) == [i \in 1..4 |-> StripZeros(Slice(b, (i - 1) * 32, i * 32))]

\* defEvents is kept as its two 32-bit halves (defEventsA = low, defEventsB = high)
SaveOptions(o) ==
    PackI(o.defEventsA) \o PackI(o.defEventsB) \o PackH(o.wrapFlag) \o Packh(o.timeLimit)
        \o PackI(o.unk1) \o PackB(o.startEntrance) \o PackB(o.unk2) \o PackB(o.unk3)
        \o Zeros(1)

LoadOptions(b) ==
    [defEventsA |-> UnpackI(b, 0), defEventsB |-> UnpackI(b, 4),
     wrapFlag |-> UnpackH(b, 8), timeLimit |-> Unpackh(b, 10), unk1 |-> UnpackI(b, 12),
     startEntrance |-> UnpackB(b, 16), unk2 |-> UnpackB(b, 17), unk3 |-> UnpackB(b, 18)]

-----------------------------------------------------------------------------
(* Entrances (block 6), sprites (block 7, 8), locations (block 10) *)

\* EntranceEditorItem.__init__
EntranceEditorItem(x, y, id, destarea, destentrance, type, zone, layer, path, settings, exittomap, cpd) ==
    [objx |-> x, objy |-> y, entid |-> id, destarea |-> destarea,
     destentrance |-> destentrance, enttype |-> type, entzone |-> zone,
     entsettings |-> settings, entlayer |-> layer, entpath |-> path,
     exittomap |-> exittomap, cpdirection |-> cpd]

\* LevelUnit.LoadEntrances: struct '>HHxxxxBBBBxBBBHBB', stride 20
LoadEntrances(entdata) ==
    [i \in 1..(Len(entdata) \div 20) |->
        LET o == (i - 1) * 20
        IN  EntranceEditorItem(UnpackH(entdata, o), UnpackH(entdata, o + 2),
                UnpackB(entdata, o + 8), UnpackB(entdata, o + 9), UnpackB(entdata, o + 10),
                UnpackB(entdata, o + 11), UnpackB(entdata, o + 13), UnpackB(entdata, o + 14),
                UnpackB(entdata, o + 15), UnpackH(entdata, o + 16), UnpackB(entdata, o + 18),
                UnpackB(entdata, o + 19))]

\* an encoder that writes the path where the layer belongs and the layer where the path does
PackEntranceSwapped(e, zoneID) ==
    PackH(e.objx) \o PackH(e.objy) \o Zeros(4) \o PackB(e.entid) \o PackB(e.destarea)
        \o PackB(e.destentrance) \o PackB(e.enttype) \o Zeros(1) \o PackB(zoneID)
        \o PackB(e.entpath) \o PackB(e.entlayer) \o PackH(e.entsettings)
        \o PackB(e.exittomap) \o PackB(e.cpdirection)

\* entstruct.pack_into for one entrance
PackEntrance(e, zoneID) ==
    PackH(e.objx) \o PackH(e.objy) \o Zeros(4) \o PackB(e.entid) \o PackB(e.destarea)
        \o PackB(e.destentrance) \o PackB(e.enttype) \o Zeros(1) \o PackB(zoneID)
        \o PackB(e.entlayer) \o PackB(e.entpath) \o PackH(e.entsettings)
        \o PackB(e.exittomap) \o PackB(e.cpdirection)

\* SpriteEditorItem.__init__ (zoneID is not set before SortSpritesByZone)
NoZoneID == -1

SpriteEditorItem(type, x, y, data) ==
    [type |-> type, objx |-> x, objy |-> y, spritedata |-> data, zoneID |-> NoZoneID]

\* LevelUnit.LoadSprites: struct '>HHH8sxx', stride 16
LoadSprites(spritedata) ==
    [i \in 1..(Len(spritedata) \div 16) |->
        LET o == (i - 1) * 16
        IN  SpriteEditorItem(UnpackH(spritedata, o), UnpackH(spritedata, o + 2),
                UnpackH(spritedata, o + 4), Slice(spritedata, o + 6, o + 14))]

\* an encoder that copies all eight payload bytes
PackSpriteCopyAll(s) ==
    PackH(s.type) \o PackH(s.objx) \o PackH(s.objy) \o s.spritedata \o Zeros(2)

\* sprstruct.pack_into for one sprite: struct '>HHH6sBBxx'
PackSprite(s) ==
    PackH(s.type) \o PackH(s.objx) \o PackH(s.objy) \o Slice(s.spritedata, 0, 6)
        \o PackB(s.zoneID) \o PackB(s.spritedata[8]) \o Zeros(2)

\* LevelUnit.SaveSprites: the records, then the 4-byte 0xFF terminator
SaveSprites(sprs) ==
    Concat([i \in 1..Len(sprs) |-> PackSprite(sprs[i])]) \o Fill(4, 255)

\* ls.sort(): ascending list of the elements of a set of integers
RECURSIVE SortedSeq(_)
SortedSeq(S) ==
    IF S = {} THEN <<>>
    ELSE LET m == CHOOSE x \in S : \A y \in S : x <= y
         IN  <<m>> \o SortedSeq(S \ {m})

\* LevelUnit.SaveLoadedSprites: the distinct sprite types, sorted, '>Hxx' each
SaveLoadedSprites(sprs) ==
    LET ls == SortedSeq({sprs[i].type : i \in 1..Len(sprs)})
    IN  Concat([i \in 1..Len(ls) |-> PackH(ls[i]) \o Zeros(2)])

\* LocationEditorItem.__init__
LocationEditorItem(x, y, width, height, id) ==
    [objx |-> x, objy |-> y, width |-> width, height |-> height, id |-> id]

\* LevelUnit.LoadLocations: struct '>HHHHBxxx', stride 12
LoadLocations(locdata) ==
    [i \in 1..(Len(locdata) \div 12) |->
        LET o == (i - 1) * 12
        IN  LocationEditorItem(UnpackH(locdata, o), UnpackH(locdata, o + 2),
                UnpackH(locdata, o + 4), UnpackH(locdata, o + 6), UnpackB(locdata, o + 8))]

\* LevelUnit.SaveLocations
SaveLocations(locs) ==
    Concat([i \in 1..Len(locs) |->
        PackH(locs[i].objx) \o PackH(locs[i].objy) \o PackH(locs[i].width)
            \o PackH(locs[i].height) \o PackB(locs[i].id) \o Zeros(3)])

-----------------------------------------------------------------------------
(* Zones: ZoneItem, the zone lookup, blocks 2, 4, 5 and 9 *)

\* Python None where a list is expected
None == <<>>

\* a scan that stops at the first record carrying the id
RECURSIVE ScanCompanionFirst(_, _, _, _)
ScanCompanionFirst(list, k, id, found) ==
    IF list = <<>> THEN found
    ELSE IF Head(list)[k] = id THEN Head(list)
    ELSE ScanCompanionFirst(Tail(list), k, id, found)

\* the loop "for block in <list>: if block[k] == id: <var> = block" of ZoneItem.__init__
RECURSIVE ScanCompanion(_, _, _, _)
ScanCompanion(list, k, id, found) ==
    IF list = <<>> THEN found
    ELSE ScanCompanion(Tail(list), k, id, IF Head(list)[k] = id THEN Head(list) ELSE found)

\* ZoneItem.__init__ raises (subscript of None) when a companion id is not found
ZoneResolvable(h, l, m, boundings, bgAs, bgBs) ==
    /\ ScanCompanion(boundings, 5, h, None) # None
    /\ ScanCompanion(bgAs, 1, l, None) # None
    /\ ScanCompanion(bgBs, 1, m, None) # None

\* ZoneItem.__init__
ZoneItem(a, b, c, d, e, f, g, h, i, j, k, l, m, n, o, p, boundings, bgAs, bgBs, id) ==
    LET bnd == ScanCompanion(boundings, 5, h, None)
        bgABlock == ScanCompanion(bgAs, 1, l, None)
        bgBBlock == ScanCompanion(bgBs, 1, m, None)
    IN  [id |-> id, objx |-> a, objy |-> b, width |-> c, height |-> d,
         modeldark |-> e, terraindark |-> f, zoneID |-> g, block3id |-> h,
         cammode |-> i, camzoom |-> j, visibility |-> k, block5id |-> l, block6id |-> m,
         direction |-> n, music |-> o, sfxmod |-> p,
         yupperbound |-> bnd[1], ylowerbound |-> bnd[2], yupperbound2 |-> bnd[3],
         ylowerbound2 |-> bnd[4], entryid |-> bnd[5], mpcamzoomadjust |-> bnd[6],
         yupperbound3 |-> bnd[7], ylowerbound3 |-> bnd[8],
         entryidA |-> bgABlock[1], XscrollA |-> bgABlock[2], YscrollA |-> bgABlock[3],
         YpositionA |-> bgABlock[4], XpositionA |-> bgABlock[5], bg1A |-> bgABlock[6],
         bg2A |-> bgABlock[7], bg3A |-> bgABlock[8], ZoomA |-> bgABlock[9],
         entryidB |-> bgBBlock[1], XscrollB |-> bgBBlock[2], YscrollB |-> bgBBlock[3],
         YpositionB |-> bgBBlock[4], XpositionB |-> bgBBlock[5], bg1B |-> bgBBlock[6],
         bg2B |-> bgBBlock[7], bg3B |-> bgBBlock[8], ZoomB |-> bgBBlock[9]]

\* QRectF.contains(x, y) for ZoneRect = QRectF(objx, objy, width, height):
\* edges included, a rectangle of zero width or height contains nothing
RectContains(z, x, y) ==
    LET l == IF z.width < 0 THEN z.objx + z.width ELSE z.objx
        r == IF z.width < 0 THEN z.objx ELSE z.objx + z.width
        t == IF z.height < 0 THEN z.objy + z.height ELSE z.objy
        b == IF z.height < 0 THEN z.objy ELSE z.objy + z.height
    IN  /\ l # r
        /\ ~(x < l \/ x > r)
        /\ t # b
        /\ ~(y < t \/ y > b)

\* the loop of MapPositionToZoneID; distances are compared by their squares
\* (the square root is strictly increasing on the integers that occur)
RECURSIVE ZoneIDLoop(_, _, _, _, _, _)
ZoneIDLoop(zs, x, y, id, minimumdist, rval) ==
    IF id >= Len(zs) THEN rval
    ELSE LET zone == zs[id + 1]
             left == zone.objx
             right == zone.objx + zone.width
             top == zone.objy
             bottom == zone.objy + zone.height
             xd1 == IF x <= left THEN left - x ELSE 0
             xdist == IF x >= right THEN x - right ELSE xd1
             yd1 == IF y <= top THEN top - y ELSE 0
             ydist == IF y >= bottom THEN y - bottom ELSE yd1
             dist == xdist * xdist + ydist * ydist
             closer == dist < minimumdist \/ minimumdist = -1
         IN  IF RectContains(zone, x, y) THEN id
             ELSE ZoneIDLoop(zs, x, y, id + 1,
                             IF closer THEN dist ELSE minimumdist,
                             IF closer THEN zone.zoneID ELSE rval)

MapPositionToZoneID(zs, x, y) == ZoneIDLoop(zs, x, y, 0, -1, -1)

\* the "if zone < 0: zone = 0" of SaveEntrances and SortSpritesByZone
ZoneIDOrZero(zs, x, y) ==
    LET zoneID == MapPositionToZoneID(zs, x, y) IN IF zoneID < 0 THEN 0 ELSE zoneID

\* LevelUnit.SaveEntrances
SaveEntrances(ents, zonelist) ==
    Concat([i \in 1..Len(ents) |->
        PackEntrance(ents[i], ZoneIDOrZero(zonelist, ents[i].objx, ents[i].objy))])

\* a sort whose groups hold the last sprite of every zone only
SortSpritesByZoneLastOnly(sprs, zonelist) ==
    LET tagged == [i \in 1..Len(sprs) |->
                     [sprs[i] EXCEPT !.zoneID = ZoneIDOrZero(zonelist, sprs[i].objx, sprs[i].objy)]]
        zs == SortedSeq({tagged[i].zoneID : i \in 1..Len(tagged)})
        last(z) == CHOOSE i \in 1..Len(tagged) :
                       /\ tagged[i].zoneID = z
                       /\ \A j \in (i + 1)..Len(tagged) : tagged[j].zoneID # z
    IN  [k \in 1..Len(zs) |-> tagged[last(zs[k])]]

\* a sort that assigns the zone ids and leaves the list in its order
SortSpritesByZoneTagOnly(sprs, zonelist) ==
    [i \in 1..Len(sprs) |->
        [sprs[i] EXCEPT !.zoneID = ZoneIDOrZero(zonelist, sprs[i].objx, sprs[i].objy)]]

\* LevelUnit.SortSpritesByZone: assign zoneID, group by zone in ascending zone order,
\* keeping the list order inside a group
SortSpritesByZone(sprs, zonelist) ==
    LET tagged == [i \in 1..Len(sprs) |->
                     [sprs[i] EXCEPT !.zoneID = ZoneIDOrZero(zonelist, sprs[i].objx, sprs[i].objy)]]
        zs == SortedSeq({tagged[i].zoneID : i \in 1..Len(tagged)})
    IN  Concat([k \in 1..Len(zs) |-> SelectSeq(tagged, LAMBDA s : s.zoneID = zs[k])])

\* LevelUnit.LoadZones, block 2: struct '>4lHHhh', stride 24
LoadBounding(bdngdata) ==
    [i \in 1..(Len(bdngdata) \div 24) |->
        LET o == (i - 1) * 24
        IN  <<Unpackl(bdngdata, o), Unpackl(bdngdata, o + 4), Unpackl(bdngdata, o + 8),
              Unpackl(bdngdata, o + 12), UnpackH(bdngdata, o + 16), UnpackH(bdngdata, o + 18),
              Unpackh(bdngdata, o + 20), Unpackh(bdngdata, o + 22)>>]

\* LevelUnit.LoadZones, blocks 4 and 5: struct '>xBhhhhHHHxxxBxxxx', stride 24
LoadBg(bgdata) ==
    [i \in 1..(Len(bgdata) \div 24) |->
        LET o == (i - 1) * 24
        IN  <<UnpackB(bgdata, o + 1), Unpackh(bgdata, o + 2), Unpackh(bgdata, o + 4),
              Unpackh(bgdata, o + 6), Unpackh(bgdata, o + 8), UnpackH(bgdata, o + 10),
              UnpackH(bgdata, o + 12), UnpackH(bgdata, o + 14), UnpackB(bgdata, o + 19)>>]

\* the 16 fields of zone record i (0-based) of block 9: struct '>HHHHHHBBBBxBBBBxBB'
ZoneData(zonedata, i) ==
    LET o == i * 24
    IN  <<UnpackH(zonedata, o), UnpackH(zonedata, o + 2), UnpackH(zonedata, o + 4),
          UnpackH(zonedata, o + 6), UnpackH(zonedata, o + 8), UnpackH(zonedata, o + 10),
          UnpackB(zonedata, o + 12), UnpackB(zonedata, o + 13), UnpackB(zonedata, o + 14),
          UnpackB(zonedata, o + 15), UnpackB(zonedata, o + 17), UnpackB(zonedata, o + 18),
          UnpackB(zonedata, o + 19), UnpackB(zonedata, o + 20), UnpackB(zonedata, o + 22),
          UnpackB(zonedata, o + 23)>>

\* LoadZones raises when some zone record references an id no companion record has
ZonesLoadable(blks) ==
    \A i \in 0..((Len(blks[9]) \div 24) - 1) :
        LET dataz == ZoneData(blks[9], i)
        IN  ZoneResolvable(dataz[8], dataz[12], dataz[13],
                           LoadBounding(blks[2]), LoadBg(blks[4]), LoadBg(blks[5]))

\* LevelUnit.LoadZones, block 9
LoadZones(blks) ==
    LET bnds == LoadBounding(blks[2])
        As == LoadBg(blks[4])
        Bs == LoadBg(blks[5])
    IN  [n \in 1..(Len(blks[9]) \div 24) |->
            LET dataz == ZoneData(blks[9], n - 1)
            IN  ZoneItem(dataz[1], dataz[2], dataz[3], dataz[4], dataz[5], dataz[6],
                         dataz[7], dataz[8], dataz[9], dataz[10], dataz[11], dataz[12],
                         dataz[13], dataz[14], dataz[15], dataz[16], bnds, As, Bs, n - 1)]

PackBounding(b) ==
    Packl(b[1]) \o Packl(b[2]) \o Packl(b[3]) \o Packl(b[4]) \o PackH(b[5]) \o PackH(b[6])
        \o Packh(b[7]) \o Packh(b[8])

PackBg(g) ==
    Zeros(1) \o PackB(g[1]) \o Packh(g[2]) \o Packh(g[3]) \o Packh(g[4]) \o Packh(g[5])
        \o PackH(g[6]) \o PackH(g[7]) \o PackH(g[8]) \o Zeros(3) \o PackB(g[9]) \o Zeros(4)

PackZone(f) ==
    PackH(f[1]) \o PackH(f[2]) \o PackH(f[3]) \o PackH(f[4]) \o PackH(f[5]) \o PackH(f[6])
        \o PackB(f[7]) \o PackB(f[8]) \o PackB(f[9]) \o PackB(f[10]) \o Zeros(1)
        \o PackB(f[11]) \o PackB(f[12]) \o PackB(f[13]) \o PackB(f[14]) \o Zeros(1)
        \o PackB(f[15]) \o PackB(f[16])

\* SaveZones: "if z.objx < 0: z.objx = 0; if z.objy < 0: z.objy = 0"
ClampZone(z) ==
    [z EXCEPT !.objx = IF z.objx < 0 THEN 0 ELSE z.objx,
              !.objy = IF z.objy < 0 THEN 0 ELSE z.objy]

\* a SaveZones that leaves in the zone records the companion ids the zones came with
SaveZonesKeepIds(zs0) ==
    LET zs == [n \in 1..Len(zs0) |-> ClampZone(zs0[n])]
    IN  [zones |-> zs,
         b2 |-> Concat([n \in 1..Len(zs) |->
                  LET z == zs[n] i == n - 1
                  IN  PackBounding(<<z.yupperbound, z.ylowerbound, z.yupperbound2,
                                     z.ylowerbound2, i, z.mpcamzoomadjust,
                                     z.yupperbound3, z.ylowerbound3>>)]),
         b4 |-> Concat([n \in 1..Len(zs) |->
                  LET z == zs[n] i == n - 1
                  IN  PackBg(<<i, z.XscrollA, z.YscrollA, z.YpositionA, z.XpositionA,
                               z.bg1A, z.bg2A, z.bg3A, z.ZoomA>>)]),
         b5 |-> Concat([n \in 1..Len(zs) |->
                  LET z == zs[n] i == n - 1
                  IN  PackBg(<<i, z.XscrollB, z.YscrollB, z.YpositionB, z.XpositionB,
                               z.bg1B, z.bg2B, z.bg3B, z.ZoomB>>)]),
         b9 |-> Concat([n \in 1..Len(zs) |->
                  LET z == zs[n] i == n - 1
                  IN  PackZone(<<z.objx, z.objy, z.width, z.height, z.modeldark,
                                 z.terraindark, i, z.block3id, z.cammode, z.camzoom,
                                 z.visibility, z.block5id, z.block6id, z.direction, z.music,
                                 z.sfxmod>>)])]

\* LevelUnit.SaveZones: the zones as left in memory and blocks 2, 4, 5, 9;
\* record i of every block carries the loop counter i as its id
SaveZones(zs0) ==
    LET zs == [n \in 1..Len(zs0) |-> ClampZone(zs0[n])]
    IN  [zones |-> zs,
         b2 |-> Concat([n \in 1..Len(zs) |->
                  LET z == zs[n] i == n - 1
                  IN  PackBounding(<<z.yupperbound, z.ylowerbound, z.yupperbound2,
                                     z.ylowerbound2, i, z.mpcamzoomadjust,
                                     z.yupperbound3, z.ylowerbound3>>)]),
         b4 |-> Concat([n \in 1..Len(zs) |->
                  LET z == zs[n] i == n - 1
                  IN  PackBg(<<i, z.XscrollA, z.YscrollA, z.YpositionA, z.XpositionA,
                               z.bg1A, z.bg2A, z.bg3A, z.ZoomA>>)]),
         b5 |-> Concat([n \in 1..Len(zs) |->
                  LET z == zs[n] i == n - 1
                  IN  PackBg(<<i, z.XscrollB, z.YscrollB, z.YpositionB, z.XpositionB,
                               z.bg1B, z.bg2B, z.bg3B, z.ZoomB>>)]),
         b9 |-> Concat([n \in 1..Len(zs) |->
                  LET z == zs[n] i == n - 1
                  IN  PackZone(<<z.objx, z.objy, z.width, z.height, z.modeldark,
                                 z.terraindark, i, i, z.cammode, z.camzoom, z.visibility,
                                 i, i, z.direction, z.music, z.sfxmod>>)])]

-----------------------------------------------------------------------------
(* Camera profiles: block 11 and the extra bounding record of block 2 *)

\* a load that takes every record of block 11 for a profile, the first one too
LoadCamProfilesAll(profiledata) ==
    [n \in 1..(Len(profiledata) \div 20) |->
        <<UnpackB(profiledata, (n - 1) * 20 + 18), UnpackB(profiledata, (n - 1) * 20 + 13),
          UnpackB(profiledata, (n - 1) * 20 + 14)>>]

\* LevelUnit.LoadCamProfiles: struct '>xxxxxxxxxxxxBBBBxxBx', stride 20;
\* a profile is the list [event id, camera mode, zoom]
LoadCamProfiles(profiledata) ==
    LET count == Len(profiledata) \div 20
        data(i) == <<UnpackB(profiledata, i * 20 + 12), UnpackB(profiledata, i * 20 + 13),
                     UnpackB(profiledata, i * 20 + 14), UnpackB(profiledata, i * 20 + 15),
                     UnpackB(profiledata, i * 20 + 18)>>
        any(d) == \E k \in 1..5 : d[k] # 0
        keep == SelectSeq([n \in 1..count |-> n - 1], LAMBDA i : i > 0 \/ any(data(i)))
    IN  [n \in 1..Len(keep) |-> <<data(keep[n])[5], data(keep[n])[2], data(keep[n])[3]>>]

\* an id that does not depend on the bounding records already written
CamBoundingIDZero(block2) == 0

\* the id SaveCamProfiles gives the extra bounding record
CamBoundingID(block2) == Len(block2) \div 20

PackCamProfile(bdngid, p) ==
    Zeros(12) \o PackB(bdngid) \o PackB(p[2]) \o PackB(p[3]) \o PackB(0) \o Zeros(2)
        \o PackB(p[1]) \o Zeros(1)

\* LevelUnit.SaveCamProfiles: block 11 and the new block 2
SaveCamProfiles(profiles, block2) ==
    IF profiles = <<>> THEN [b11 |-> <<>>, b2 |-> block2]
    ELSE LET bdngid == CamBoundingID(block2)
         IN  [b11 |-> Zeros(20) \o
                      Concat([n \in 1..Len(profiles) |-> PackCamProfile(bdngid, profiles[n])]),
              b2 |-> block2 \o PackBounding(<<0, 0, 0, 0, bdngid, 15, 0, 0>>)]

-----------------------------------------------------------------------------
(* Paths: blocks 12 and 13 *)

\* A float held in memory is [kind, bits]: kind "f32" for a value a 32-bit float
\* holds exactly (bits = its IEEE-754 bytes), kind "f64" for a Python float that
\* 'f' rounds when packing (bits = the bytes of the rounded value).
PackF(v) == v.bits

UnpackF(b, off) == [kind |-> "f32", bits |-> Slice(b, off, off + 4)]

\* the literals 0.5 and 0.00498 of a node created in the editor
DefaultSpeed == [kind |-> "f32", bits |-> <<63, 0, 0, 0>>]

DefaultAccel == [kind |-> "f64", bits |-> <<59, 163, 47, 69>>]

\* a node loader that reads every path's nodes from the start of the node table
LoadPathNodesFromStart(nodedata, startindex, count) ==
    [n \in 1..count |->
        LET o == (n - 1) * 16
        IN  [x |-> UnpackH(nodedata, o), y |-> UnpackH(nodedata, o + 2),
             speed |-> UnpackF(nodedata, o + 4), accel |-> UnpackF(nodedata, o + 8),
             delay |-> Unpackh(nodedata, o + 12)]]

\* LevelUnit.LoadPathNodes: struct '>HHffhxx', stride 16
LoadPathNodes(nodedata, startindex, count) ==
    [n \in 1..count |->
        LET o == (startindex + n - 1) * 16
        IN  [x |-> UnpackH(nodedata, o), y |-> UnpackH(nodedata, o + 2),
             speed |-> UnpackF(nodedata, o + 4), accel |-> UnpackF(nodedata, o + 8),
             delay |-> Unpackh(nodedata, o + 12)]]

\* LoadPathNodes raises when a path addresses nodes past the end of block 13
PathsLoadable(blks) ==
    \A i \in 0..((Len(blks[12]) \div 8) - 1) :
        \/ UnpackH(blks[12], i * 8 + 4) = 0
        \/ (UnpackH(blks[12], i * 8 + 2) + UnpackH(blks[12], i * 8 + 4)) * 16 <= Len(blks[13])

\* LevelUnit.LoadPaths: struct '>BxHHH', stride 8
LoadPaths(blks) ==
    [n \in 1..(Len(blks[12]) \div 8) |->
        LET o == (n - 1) * 8
        IN  [id |-> UnpackB(blks[12], o),
             nodes |-> LoadPathNodes(blks[13], UnpackH(blks[12], o + 2), UnpackH(blks[12], o + 4)),
             loops |-> (UnpackH(blks[12], o + 6) = 2)]]

\* LevelUnit.SavePathNodes
RECURSIVE SavePathNodes(_, _, _)
SavePathNodes(buffer, offset, nodes) ==
    IF nodes = <<>> THEN buffer
    ELSE LET node == Head(nodes)
         IN  SavePathNodes(
                PackInto(buffer, offset,
                    PackH(node.x) \o PackH(node.y) \o PackF(node.speed) \o PackF(node.accel)
                        \o Packh(node.delay) \o Zeros(2)),
                offset + 16, Tail(nodes))

\* the second loop of SavePaths
RECURSIVE SavePathsLoop(_, _, _, _, _, _)
SavePathsLoop(paths, buffer, nodebuffer, offset, nodeoffset, nodeindex) ==
    IF paths = <<>> THEN [b12 |-> buffer, b13 |-> nodebuffer]
    ELSE LET path == Head(paths)
         IN  IF Len(path.nodes) < 1
             THEN SavePathsLoop(Tail(paths), buffer, nodebuffer, offset, nodeoffset, nodeindex)
             ELSE SavePathsLoop(Tail(paths),
                    PackInto(buffer, offset,
                        PackB(path.id) \o Zeros(1) \o PackH(nodeindex) \o PackH(Len(path.nodes))
                            \o PackH(IF path.loops THEN 2 ELSE 0)),
                    SavePathNodes(nodebuffer, nodeoffset, path.nodes),
                    offset + 8, nodeoffset + Len(path.nodes) * 16,
                    nodeindex + Len(path.nodes))

RECURSIVE NodeCount(_)
NodeCount(paths) == IF paths = <<>> THEN 0 ELSE Len(Head(paths).nodes) + NodeCount(Tail(paths))

\* LevelUnit.SavePaths: blocks 12 and 13
SavePaths(paths) ==
    SavePathsLoop(paths, Zeros(Len(paths) * 8), Zeros(NodeCount(paths) * 16), 0, 0, 0)

-----------------------------------------------------------------------------
(* Editor metadata *)

\* character codes of the string literals
ReggieID == <<82, 101, 103, 103, 105, 101, 45, 85, 112, 100, 97, 116, 101, 100, 32, 98,
              121, 32, 84, 114, 101, 101, 107, 105, 44, 32, 84, 101, 109, 112, 117, 115>>

StrUnknown == <<40, 117, 110, 107, 110, 111, 119, 110, 41>>

StrDash == <<45>>

KeyCreator == <<67, 114, 101, 97, 116, 111, 114>>

KeyTitle == <<84, 105, 116, 108, 101>>

KeyAuthor == <<65, 117, 116, 104, 111, 114>>

KeyGroup == <<71, 114, 111, 117, 112>>

KeyWebpage == <<87, 101, 98, 112, 97, 103, 101>>

KeyPassword == <<80, 97, 115, 115, 119, 111, 114, 100>>

\* LoadReggieInfo(None): the defaults
DefaultInfo ==
    [Creator |-> StrUnknown, Title |-> StrDash, Author |-> StrDash, Group |-> StrDash,
     Webpage |-> StrDash, Password |-> <<>>]

\* str.encode('utf-8') for code points below 0x800: one byte below 0x80, else two
\* (two places for every character, the unused second place dropped)
Utf8Encode(str) ==
    SelectSeq([k \in 1..(2 * Len(str)) |->
                  IF k % 2 = 1
                  THEN IF str[(k + 1) \div 2] < 128 THEN str[(k + 1) \div 2]
                       ELSE 192 + (str[(k + 1) \div 2] \div 64)
                  ELSE IF str[k \div 2] < 128 THEN -1
                       ELSE 128 + (str[k \div 2] % 64)],
              LAMBDA v : v # -1)

\* bytes.decode('utf-8') for the same range; ok is FALSE where it raises
\* UnicodeDecodeError (a stray continuation byte, a lead byte without its
\* continuation, an overlong form, a longer form). A character starts at every
\* byte that is no continuation byte.
Utf8Decode(b) ==
    LET cont(i) == i >= 1 /\ i <= Len(b) /\ b[i] >= 128 /\ b[i] < 192
        lead(i) == i >= 1 /\ i <= Len(b) /\ b[i] >= 194 /\ b[i] < 224
    IN  IF \A i \in 1..Len(b) :
              /\ b[i] < 128 \/ cont(i) \/ lead(i)
              /\ cont(i) => lead(i - 1)
              /\ lead(i) => cont(i + 1)
        THEN [ok |-> TRUE,
              str |-> SelectSeq([i \in 1..Len(b) |->
                                    IF cont(i) THEN -1
                                    ELSE IF lead(i) THEN (b[i] - 192) * 64 + (b[i + 1] - 128)
                                    ELSE b[i]],
                                LAMBDA v : v # -1)]
        ELSE [ok |-> FALSE, str |-> <<>>]

\* pickle opcode BINUNICODE: 'X', 4-byte little-endian length, the utf-8 bytes
BinUnicode(str) ==
    <<88, Len(Utf8Encode(str)) % 256, Len(Utf8Encode(str)) \div 256, 0, 0>> \o Utf8Encode(str)

\* LevelUnit.SaveReggieInfo: protocol 2 pickle of the dict, after pickletools.optimize,
\* for six value strings that are distinct objects (no memo reference is emitted)
SaveReggieInfo(inf) ==
    <<128, 2, 125, 40>>
        \o BinUnicode(KeyCreator) \o BinUnicode(ReggieID)
        \o BinUnicode(KeyTitle) \o BinUnicode(inf.Title)
        \o BinUnicode(KeyAuthor) \o BinUnicode(inf.Author)
        \o BinUnicode(KeyGroup) \o BinUnicode(inf.Group)
        \o BinUnicode(KeyWebpage) \o BinUnicode(inf.Webpage)
        \o BinUnicode(KeyPassword) \o BinUnicode(inf.Password)
        \o <<117, 46>>


\* LevelUnit.SaveReggieInfo when equal value strings are one object: pickle
\* writes the first with a BINPUT and the later ones as BINGET;
\* pickletools.optimize numbers the BINPUTs that are used from 0
SaveReggieInfoShared(inf) ==
    LET keys == <<KeyCreator, KeyTitle, KeyAuthor, KeyGroup, KeyWebpage, KeyPassword>>
        vals == <<ReggieID, inf.Title, inf.Author, inf.Group, inf.Webpage, inf.Password>>
        first(i) == CHOOSE j \in 1..i : vals[j] = vals[i] /\ \A k \in 1..(j - 1) : vals[k] # vals[i]
        used(j) == first(j) = j /\ \E i \in (j + 1)..6 : vals[i] = vals[j]
        put(j) == Cardinality({m \in 1..(j - 1) : used(m)})
        value(i) == IF first(i) # i THEN <<104, put(first(i))>>
                    ELSE BinUnicode(vals[i]) \o (IF used(i) THEN <<113, put(i)>> ELSE <<>>)
    IN  <<128, 2, 125, 40>>
            \o Concat([i \in 1..6 |-> BinUnicode(keys[i]) \o value(i)])
            \o <<117, 46>>

\* the two placeholder strings DecodeReggieInfo filters out: 'PyQt4.QtCore', 'QString'
StrPyQt4QtCore == <<80, 121, 81, 116, 52, 46, 81, 116, 67, 111, 114, 101>>

StrQString == <<81, 83, 116, 114, 105, 110, 103>>

Fail == [ok |-> FALSE, stack |-> <<>>]

\* None on the stack of DecodeReggieInfo (pushed for GLOBAL)
PickleNone == <<-1>>

\* the position after the next newline at or after pos (0-based), 0 when there is
\* none (read_stringnl raises)
AfterNewline(data, pos) ==
    LET newlines == {q \in pos..(Len(data) - 1) : data[q + 1] = 10}
    IN  IF newlines = {} THEN 0
        ELSE (CHOOSE q \in newlines : \A r \in newlines : q <= r) + 1

\* the next memo: memo[arg] = top of the stack
MemoPut(memo, arg, top) ==
    [k \in (DOMAIN memo) \cup {arg} |-> IF k = arg THEN top ELSE memo[k]]

\* one opcode read by pickletools.genops at pos, and what DecodeReggieInfo does
\* with it: ok is FALSE where genops raises (unknown opcode, truncated argument,
\* undecodable string), else pos is the position of the next opcode. Opcodes:
\* PROTO, BININT1 (one argument byte); EMPTY_DICT, MARK, SETITEMS, SETITEM, NONE,
\* REDUCE, TUPLE, TUPLE1..3 (no argument); BINUNICODE; SHORT_BINSTRING, BINSTRING
\* (latin-1); GLOBAL; BINPUT; BINGET. The streams of the model hold no other
\* opcode of the pickle protocol.
GenOp(data, pos, stack, memo) ==
    LET op == data[pos + 1]
        bad == [ok |-> FALSE, pos |-> pos, stack |-> stack, memo |-> memo]
        n4 == data[pos + 2] + 256 * data[pos + 3]
        nl == AfterNewline(data, AfterNewline(data, pos + 1))
    IN  CASE op \in {128, 75} ->
                 IF pos + 2 > Len(data) THEN bad
                 ELSE [ok |-> TRUE, pos |-> pos + 2, stack |-> stack, memo |-> memo]
          [] op \in {125, 40, 117, 115, 78, 82, 116, 133, 134, 135} ->
                 [ok |-> TRUE, pos |-> pos + 1, stack |-> stack, memo |-> memo]
          [] op = 88 ->
                 IF pos + 5 > Len(data) THEN bad
                 ELSE IF data[pos + 4] # 0 \/ data[pos + 5] # 0 THEN bad
                 ELSE IF pos + 5 + n4 > Len(data) THEN bad
                 ELSE IF ~Utf8Decode(Slice(data, pos + 5, pos + 5 + n4)).ok THEN bad
                 ELSE [ok |-> TRUE, pos |-> pos + 5 + n4,
                       stack |-> Append(stack,
                           Utf8Decode(Slice(data, pos + 5, pos + 5 + n4)).str),
                       memo |-> memo]
          [] op = 85 ->
                 IF pos + 2 > Len(data) \/ pos + 2 + data[pos + 2] > Len(data) THEN bad
                 ELSE [ok |-> TRUE, pos |-> pos + 2 + data[pos + 2],
                       stack |-> Append(stack, Slice(data, pos + 2, pos + 2 + data[pos + 2])),
                       memo |-> memo]
          [] op = 84 ->
                 IF pos + 5 > Len(data) THEN bad
                 ELSE IF data[pos + 4] # 0 \/ data[pos + 5] # 0 THEN bad
                 ELSE IF pos + 5 + n4 > Len(data) THEN bad
                 ELSE [ok |-> TRUE, pos |-> pos + 5 + n4,
                       stack |-> Append(stack, Slice(data, pos + 5, pos + 5 + n4)),
                       memo |-> memo]
          [] op = 99 ->
                 IF AfterNewline(data, pos + 1) = 0 \/ nl = 0 THEN bad
                 ELSE [ok |-> TRUE, pos |-> nl, stack |-> Append(stack, PickleNone),
                       memo |-> memo]
          [] op = 113 ->
                 IF pos + 2 > Len(data) THEN bad
                 ELSE [ok |-> TRUE, pos |-> pos + 2, stack |-> stack,
                       memo |-> IF stack # <<>>
                                THEN MemoPut(memo, data[pos + 2], stack[Len(stack)])
                                ELSE memo]
          [] op = 104 ->
                 IF pos + 2 > Len(data) THEN bad
                 ELSE [ok |-> TRUE, pos |-> pos + 2,
                       stack |-> IF data[pos + 2] \in DOMAIN memo
                                 THEN Append(stack, memo[data[pos + 2]]) ELSE stack,
                       memo |-> memo]
          [] OTHER -> bad

\* DecodeReggieInfo: the walk over pickletools.genops(data) up to STOP; the
\* result is the stack of strings, or Fail where genops raises (as in GenOp, or
\* no STOP before the end)
RECURSIVE GenOpsWalk(_, _, _, _)
GenOpsWalk(data, pos, stack, memo) ==
    IF pos >= Len(data) THEN Fail
    ELSE IF data[pos + 1] = 46 THEN [ok |-> TRUE, stack |-> stack]
    ELSE CHOOSE r \in {IF g.ok THEN GenOpsWalk(data, g.pos, g.stack, g.memo) ELSE Fail :
                          g \in {GenOp(data, pos, stack, memo)}} : TRUE

\* a decode that takes the fields it finds among 12 strings without the
\* check of the key set
DecodeReggieInfoAnyKeys(data) ==
    LET walk == GenOpsWalk(data, 0, <<>>, <<>>)
        strings == SelectSeq(walk.stack,
                      LAMBDA x : x \notin {StrPyQt4QtCore, StrQString, PickleNone})
        keys == {strings[2 * n - 1] : n \in 1..(Len(strings) \div 2)}
        val(key, default) ==
            IF key \notin keys THEN default
            ELSE strings[2 * (CHOOSE n \in 1..6 :
                        /\ strings[2 * n - 1] = key
                        /\ \A m \in (n + 1)..6 : strings[2 * m - 1] # key)]
    IN  IF ~walk.ok \/ Len(strings) # 12 THEN [ok |-> FALSE, info |-> DefaultInfo]
        ELSE [ok |-> TRUE,
              info |-> [Creator |-> val(KeyCreator, DefaultInfo.Creator),
                        Title |-> val(KeyTitle, DefaultInfo.Title),
                        Author |-> val(KeyAuthor, DefaultInfo.Author),
                        Group |-> val(KeyGroup, DefaultInfo.Group),
                        Webpage |-> val(KeyWebpage, DefaultInfo.Webpage),
                        Password |-> val(KeyPassword, DefaultInfo.Password)]]

\* DecodeReggieInfo: ok = FALSE where it raises, else the dictionary
DecodeReggieInfo(data) ==
    LET walk == GenOpsWalk(data, 0, <<>>, <<>>)
        strings == SelectSeq(walk.stack,
                      LAMBDA x : x \notin {StrPyQt4QtCore, StrQString, PickleNone})
        keys == {strings[2 * n - 1] : n \in 1..(Len(strings) \div 2)}
        \* dict(zip(it, it)): the value of the last pair with that key
        val(key) == strings[2 * (CHOOSE n \in 1..6 :
                        /\ strings[2 * n - 1] = key
                        /\ \A m \in (n + 1)..6 : strings[2 * m - 1] # key)]
    IN  IF ~walk.ok THEN [ok |-> FALSE, info |-> DefaultInfo]
        ELSE IF Len(strings) # 12 THEN [ok |-> FALSE, info |-> DefaultInfo]
        ELSE IF keys # {KeyCreator, KeyTitle, KeyAuthor, KeyGroup, KeyWebpage, KeyPassword}
        THEN [ok |-> FALSE, info |-> DefaultInfo]
        ELSE [ok |-> TRUE,
              info |-> [Creator |-> val(KeyCreator), Title |-> val(KeyTitle),
                        Author |-> val(KeyAuthor), Group |-> val(KeyGroup),
                        Webpage |-> val(KeyWebpage), Password |-> val(KeyPassword)]]

\* LevelUnit.LoadReggieInfo: absent stands for data is None
LoadReggieInfo(data, absent) ==
    IF absent THEN DefaultInfo
    ELSE LET d == DecodeReggieInfo(data) IN IF d.ok THEN d.info ELSE DefaultInfo

-----------------------------------------------------------------------------
(* Tileset objects: ObjectDef.load, the tileset archives, RenderObject *)

TilesetPa0 == <<80, 97, 48, 95, 106, 121, 111, 116, 121, 117>>

TilesetPa1 == <<80, 97, 49, 95, 110, 111, 104, 97, 114, 97>>

NewTilesets == <<TilesetPa0, TilesetPa1, <<>>, <<>>>>

\* bit test: (n & b) != 0 for a power of two b
Bit(n, b) == (n \div b) % 2 = 1

\* a tile cell whose index ignores the two low bits of the third byte
TileCellLowOnly(cbyte, b1, extra) == <<cbyte, b1, extra \div 4>>

\* the tuple ObjectDef.load appends for a three-byte cell
TileCell(cbyte, b1, extra) == <<cbyte, b1 + 256 * (extra % 4), extra \div 4>>

\* ObjectDef.load from byte i (0-based) on. ok is FALSE when source[i] or
\* source[i+2] lies past the end of the buffer (IndexError); the row that is open
\* when 0xFF is met is not appended.
RECURSIVE LoadCells(_, _, _, _)
LoadCells(source, i, row, rows) ==
    IF i >= Len(source) THEN [ok |-> FALSE, rows |-> rows]
    ELSE LET cbyte == source[i + 1]
         IN  IF cbyte = 254 THEN LoadCells(source, i + 1, <<>>, Append(rows, row))
             ELSE IF cbyte = 255 THEN [ok |-> TRUE, rows |-> rows]
             ELSE IF Bit(cbyte, 128) THEN LoadCells(source, i + 1, Append(row, <<cbyte>>), rows)
             ELSE IF i + 2 >= Len(source) THEN [ok |-> FALSE, rows |-> rows]
             ELSE LoadCells(source, i + 3,
                      Append(row, TileCell(cbyte, source[i + 2], source[i + 3])), rows)

ObjectDefLoad(source, offset) == LoadCells(source, offset, <<>>, <<>>)

\* ObjectDef with the width and height of its index entry
ObjectDef(width, height, rows) == [width |-> width, height |-> height, rows |-> rows]

\* CreateTilesets: ObjectDefinitions = [None]*4; a slot is None (loaded = FALSE) or
\* the list defs = [None]*256 whose first Len(defs) entries are ObjectDefs
NoDefs == [loaded |-> FALSE, defs |-> <<>>]

CreateTilesets == [idx \in 0..3 |-> NoDefs]

\* the objects of an archive: index file ('>HBB' per object) and definition file
RECURSIVE LoadObjects(_, _, _, _)
LoadObjects(indexfile, defbytes, i, defs) ==
    IF i >= Len(indexfile) \div 4 THEN [ok |-> TRUE, defs |-> defs]
    ELSE LET ld == ObjectDefLoad(defbytes, UnpackH(indexfile, 4 * i))
         IN  IF ~ld.ok THEN [ok |-> FALSE, defs |-> defs]
             ELSE LoadObjects(indexfile, defbytes, i + 1,
                      Append(defs, ObjectDef(UnpackB(indexfile, 4 * i + 2),
                                             UnpackB(indexfile, 4 * i + 3), ld.rows)))

\* file names of the Texture folder (Pa0_jyotyu, whose objects 26..48
\* ProcessOverrides patches, is not in the folder of the model)
TilesetPa2 == <<80, 97, 50>>

TilesetPa3 == <<80, 97, 51>>

\* a recipe per object: bytes of the definition file, laid out one after the other
RECURSIVE IndexFile(_, _)
IndexFile(recipes, offset) ==
    IF recipes = <<>> THEN <<>>
    ELSE PackH(offset) \o PackB(1) \o PackB(1)
             \o IndexFile(Tail(recipes), offset + Len(Head(recipes)))

Archive(recipes) == [hd |-> IndexFile(recipes, 0), bin |-> Concat(recipes)]

\* one 1x1 tile (index 261); a 2x1 row with a repeated cell
RecipeTile == <<0, 5, 1, 254, 255>>

RecipeRow == <<0, 6, 1, 1, 7, 1, 254, 255>>

\* a tile cell cut short by the end of the file
RecipeTruncated == <<0, 8>>

\* Texture folder: Pa1_nohara and Pa2 are complete, the last recipe of Pa3 is
\* truncated, every other name has no file
HasArchive(name) == name \in {TilesetPa1, TilesetPa2, TilesetPa3}

TextureDir(name) ==
    IF name = TilesetPa1 THEN Archive(<<RecipeTile>>)
    ELSE IF name = TilesetPa2 THEN Archive(<<RecipeTile, RecipeRow>>)
    ELSE Archive(<<RecipeTile, RecipeTruncated>>)

\* _LoadTileset: ok is FALSE when the file is missing (return False) or when
\* ObjectDef.load raised; ObjectDefinitions[idx] is assigned after the last object
\* only. ProcessOverrides changes tiles only for the names of the folder.
LoadTilesetRaw(idx, name) ==
    IF ~HasArchive(name) THEN [ok |-> FALSE, defs |-> <<>>]
    ELSE LoadObjects(TextureDir(name).hd, TextureDir(name).bin, 0, <<>>)

\* LoadTileset: try _LoadTileset, except: warning, return False
LoadTileset(defsAll, idx, name) ==
    LET r == LoadTilesetRaw(idx, name)
    IN  IF r.ok THEN [defsAll EXCEPT ![idx] = [loaded |-> TRUE, defs |-> r.defs]]
        ELSE defsAll

\* UnloadTileset
UnloadTileset(defsAll, idx) == [defsAll EXCEPT ![idx] = NoDefs]

\* CreateTilesets, then LoadTileset for every slot with a name (newLevel,
\* loadLevelData)
RECURSIVE LoadTilesets(_, _, _)
LoadTilesets(defsAll, names, idx) ==
    IF idx > 3 THEN defsAll
    ELSE LoadTilesets(IF names[idx + 1] # <<>> THEN LoadTileset(defsAll, idx, names[idx + 1])
                      ELSE defsAll, names, idx + 1)

-----------------------------------------------------------------------------
(* RenderObject *)

\* None in errorDest
ErrorCell == -2

\* -1, the empty tile RenderDiagonalObject fills the grid with
EmptyCell == -1

\* the int 0 CreateSection leaves in a row with fewer tiles than the section is
\* wide; like a control cell it has no [1]
Filler == <<>>

Grid(height, width, v) == [y \in 1..height |-> [x \in 1..width |-> v]]

\* the items at the indices of S, in order
RECURSIVE Pick(_, _, _)
Pick(items, S, i) ==
    IF i > Len(items) THEN <<>>
    ELSE (IF i \in S THEN <<items[i]>> ELSE <<>>) \o Pick(items, S, i + 1)

\* the loop that sorts items into beforeRepeat / inRepeat / afterRepeat: flagged
\* items are the indices whose flag bit is set
RepeatSplit(items, flagged) ==
    LET first == IF flagged = {} THEN Len(items) + 1
                 ELSE CHOOSE i \in flagged : \A j \in flagged : i <= j
    IN  [before |-> Pick(items, {i \in 1..Len(items) : i < first}, 1),
         inrep |-> Pick(items, flagged, 1),
         after |-> Pick(items, {i \in 1..Len(items) : i > first /\ i \notin flagged}, 1)]

\* a selection that never uses the after list
RepeatSourceNoAfter(s, n, size) ==
    IF Len(s.inrep) = 0 THEN s.before[(n % Len(s.before)) + 1]
    ELSE IF n < Len(s.before) THEN s.before[n + 1]
    ELSE s.inrep[((n - Len(s.before)) % Len(s.inrep)) + 1]

\* the item drawn at position n (0-based) of size positions: the if / elif / else
\* of RenderObject (rows, size = height) and RenderStandardRow (cells, size = width)
RepeatSource(s, n, size) ==
    IF Len(s.inrep) = 0 THEN s.before[(n % Len(s.before)) + 1]
    ELSE IF n < Len(s.before) THEN s.before[n + 1]
    ELSE IF n > size - Len(s.after) - 1 THEN s.after[n - size + Len(s.after) + 1]
    ELSE s.inrep[((n - Len(s.before)) % Len(s.inrep)) + 1]

\* RenderStandardRow: ok is FALSE when a drawn cell has no [1] (control cell,
\* IndexError) or when the row has no cell to repeat (x % 0)
RenderStandardRow(row, width) ==
    LET s == RepeatSplit(row, {i \in 1..Len(row) : Bit(row[i][1], 1)})
        bad == Len(s.inrep) = 0 /\ Len(s.before) = 0
        ok == width = 0 \/ (~bad /\ \A x \in 0..(width - 1) : Len(RepeatSource(s, x, width)) >= 2)
    IN  [ok |-> ok,
         cells |-> IF ok THEN [x \in 1..width |-> RepeatSource(s, x - 1, width)[2]] ELSE <<>>]

\* the standard branch of RenderObject
RenderStandardObject(rows, width, height) ==
    LET nonempty == Pick(rows, {i \in 1..Len(rows) : Len(rows[i]) > 0}, 1)
        s == RepeatSplit(nonempty, {i \in 1..Len(nonempty) : Bit(nonempty[i][1][1], 2)})
        r(y) == RenderStandardRow(RepeatSource(s, y, height), width)
        ok == \A y \in 0..(height - 1) : r(y).ok
    IN  [ok |-> ok, dest |-> IF ok THEN [y \in 1..height |-> r(y - 1).cells] ELSE <<>>,
         stamps |-> <<>>]

\* CountTiles
CountTiles(row) == Cardinality({i \in 1..Len(row) : ~Bit(row[i][1], 128)})

\* CreateSection: every row becomes its tile cells, left-aligned, padded to the
\* width of the widest row
CreateSection(rows) ==
    LET RECURSIVE MaxTiles(_)
        MaxTiles(i) == IF i > Len(rows) THEN 0 ELSE Max(CountTiles(rows[i]), MaxTiles(i + 1))
        width == MaxTiles(1)
        tiles(row) == Pick(row, {i \in 1..Len(row) : ~Bit(row[i][1], 128)}, 1)
    IN  [i \in 1..Len(rows) |->
            [x \in 1..width |-> IF x <= Len(tiles(rows[i])) THEN tiles(rows[i])[x] ELSE Filler]]

\* GetSlopeSections: a row that starts with a control cell begins a section; the
\* caller guarantees that the first row does. All sections are returned here;
\* RenderDiagonalObject uses the first two.
GetSlopeSections(rows) ==
    LET starts == {i \in 1..Len(rows) : Len(rows[i]) > 0 /\ Bit(rows[i][1][1], 128)}
        last(i) == IF \E j \in starts : j > i
                   THEN (CHOOSE j \in starts : j > i /\ \A k \in starts : k > i => j <= k) - 1
                   ELSE Len(rows)
        RECURSIVE Sections(_)
        Sections(i) == IF i > Len(rows) THEN <<>>
                       ELSE <<CreateSection(SubSeq(rows, i, last(i)))>> \o Sections(last(i) + 1)
    IN  Sections(1)

\* PutObjectArray: the cells of block that fall inside the grid are written;
\* ok is FALSE when such a cell has no [1] (TypeError on a filler)
PutObjectArray(dest, xo, yo, block, width, height) ==
    LET covered(x, y) == y - 1 >= yo /\ y - 1 < yo + Len(block)
                         /\ x - 1 >= xo /\ x - 1 < xo + Len(block[1])
        ok == \A y \in 1..height : \A x \in 1..width :
                  covered(x, y) => Len(block[y - yo][x - xo]) >= 2
    IN  [ok |-> ok,
         dest |-> IF ok THEN [y \in 1..height |-> [x \in 1..width |->
                      IF covered(x, y) THEN block[y - yo][x - xo][2] ELSE dest[y][x]]]
                  ELSE dest]

\* a draw amount that ignores fullslope
DrawAmountMin(fullslope, down, across) == Min(down, across)

\* "base the amount to draw by seeing how much we can fit in each direction"
DrawAmount(fullslope, down, across) ==
    IF fullslope THEN Max(down, across) ELSE Min(down, across)

\* RenderDiagonalObject: the grid is filled with -1, then drawAmount stamps of the
\* main block (and of the sub-block when there is one) are put at (x, y), which
\* advances by (xi, yi). stamps lists the PutObjectArray calls in order. ok is
\* FALSE when the main block is zero tiles wide (ZeroDivisionError) or when a
\* stamp raised.
RenderDiagonalObject(rows, width, height, fullslope) ==
    LET sections == GetSlopeSections(rows)
        mainBlock == sections[1]
        hasSub == Len(sections) # 1
        subBlock == sections[2]
        cbyte == rows[1][1][1]
        goLeft == Bit(cbyte, 1)
        goDown == Bit(cbyte, 2)
        sh == IF hasSub THEN Len(subBlock) ELSE 0
        drawAmount == DrawAmount(fullslope, height \div Len(mainBlock),
                                 width \div Len(mainBlock[1]))
        y0 == IF ~goLeft /\ ~goDown THEN height - Len(mainBlock) - sh
              ELSE IF goLeft /\ ~goDown THEN 0
              ELSE IF ~goLeft /\ goDown THEN sh
              ELSE height - Len(mainBlock)
        xi == Len(mainBlock[1])
        yi == IF goLeft = goDown THEN 0 - Len(mainBlock) ELSE Len(mainBlock)
        RECURSIVE Draw(_, _, _, _)
        Draw(i, x, y, st) ==
            IF i >= drawAmount \/ ~st.ok THEN st
            ELSE LET m == PutObjectArray(st.dest, x, y, mainBlock, width, height)
                     xb == IF goLeft THEN x + Len(mainBlock[1]) - Len(subBlock[1]) ELSE x
                     yb == IF goDown THEN y - Len(subBlock) ELSE y + Len(mainBlock)
                     s == IF hasSub /\ m.ok
                          THEN PutObjectArray(m.dest, xb, yb, subBlock, width, height)
                          ELSE m
                 IN  Draw(i + 1, x + xi, y + yi,
                          [ok |-> s.ok, dest |-> s.dest,
                           stamps |-> st.stamps \o <<[block |-> "main", x |-> x, y |-> y]>>
                               \o (IF hasSub THEN <<[block |-> "sub", x |-> xb, y |-> yb]>>
                                   ELSE <<>>)])
    IN  IF Len(mainBlock[1]) = 0 THEN [ok |-> FALSE, dest |-> <<>>, stamps |-> <<>>]
        ELSE Draw(0, 0, y0, [ok |-> TRUE, dest |-> Grid(height, width, EmptyCell),
                             stamps |-> <<>>])

\* "return errorDest"
ErrorDest(width, height) ==
    [ok |-> TRUE, dest |-> Grid(height, width, ErrorCell), stamps |-> <<>>]

\* an exception leaves RenderObject
Raised == [ok |-> FALSE, dest |-> <<>>, stamps |-> <<>>]

\* RenderObject from "if len(obj.rows) == 0" to the end of the two branches;
\* obj.rows[0][0] raises IndexError when the first row is empty
RenderRows(rows, width, height, fullslope) ==
    IF Len(rows) = 0 THEN ErrorDest(width, height)
    ELSE IF Len(rows[1]) = 0 THEN Raised
    ELSE IF Bit(rows[1][1][1], 128) THEN RenderDiagonalObject(rows, width, height, fullslope)
    ELSE RenderStandardObject(rows, width, height)

\* a slots mod that leaves every tile as it is
SlotsModOff(dest, tileset) == dest

\* "if TilesetSlotsModEnabled": tiles 1..1023 are moved to the slot of the object
SlotsMod(dest, tileset) ==
    [y \in 1..Len(dest) |-> [x \in 1..Len(dest[y]) |->
        IF 0 < dest[y][x] /\ dest[y][x] < 1024 THEN tileset * 256 + (dest[y][x] % 256)
        ELSE dest[y][x]]]

\* RenderObject. ObjectDefinitions has 4 slots and a loaded slot 256 entries:
\* a larger index raises IndexError.
RenderObject(defsAll, slotsMod, tileset, objnum, width, height, fullslope) ==
    IF tileset > 3 THEN Raised
    ELSE IF ~defsAll[tileset].loaded THEN ErrorDest(width, height)
    ELSE IF objnum > 255 THEN Raised
    ELSE IF objnum >= Len(defsAll[tileset].defs) THEN ErrorDest(width, height)
    ELSE LET r == RenderRows(defsAll[tileset].defs[objnum + 1].rows, width, height, fullslope)
         IN  IF r.ok /\ slotsMod THEN [r EXCEPT !.dest = SlotsMod(r.dest, tileset)] ELSE r

-----------------------------------------------------------------------------
(* Object layers: LoadLayer, SaveLayer *)

\* LevelObjectEditorItem.__init__ (the z value is the position in the layer)
LevelObjectEditorItem(tileset, type, layer, x, y, width, height) ==
    [tileset |-> tileset, type |-> type, layer |-> layer, objx |-> x, objy |-> y,
     width |-> width, height |-> height]

\* LevelUnit.LoadLayer: struct '>HHHHH', stride 10
LoadLayer(idx, layerdata) ==
    [i \in 1..(Len(layerdata) \div 10) |->
        LET o == (i - 1) * 10
        IN  LevelObjectEditorItem(UnpackH(layerdata, o) \div 4096, UnpackH(layerdata, o) % 4096,
                idx, UnpackH(layerdata, o + 2), UnpackH(layerdata, o + 4),
                UnpackH(layerdata, o + 6), UnpackH(layerdata, o + 8))]

\* updateObjCache at the end of LevelObjectEditorItem.__init__: the item exists
\* when RenderObject returned
Renderable(defsAll, slotsMod, o) ==
    RenderObject(defsAll, slotsMod, o.tileset, o.type, o.width, o.height, FALSE).ok

\* an encoder that ends the layer with one 0xFF byte
SaveLayerOneEnd(layer) ==
    Concat([i \in 1..Len(layer) |->
        PackH(layer[i].tileset * 4096 + layer[i].type) \o PackH(layer[i].objx)
            \o PackH(layer[i].objy) \o PackH(layer[i].width) \o PackH(layer[i].height)])
        \o Fill(1, 255)

\* LevelUnit.SaveLayer; (tileset << 12) | type is a sum for type < 4096
SaveLayer(layer) ==
    Concat([i \in 1..Len(layer) |->
        PackH(layer[i].tileset * 4096 + layer[i].type) \o PackH(layer[i].objx)
            \o PackH(layer[i].objy) \o PackH(layer[i].width) \o PackH(layer[i].height)])
        \o Fill(2, 255)

\* a layer up to the first object whose RenderObject raises
RECURSIVE LoadableObjects(_, _, _, _)
LoadableObjects(defsAll, slotsMod, objs, i) ==
    IF i > Len(objs) \/ ~Renderable(defsAll, slotsMod, objs[i]) THEN <<>>
    ELSE <<objs[i]>> \o LoadableObjects(defsAll, slotsMod, objs, i + 1)

\* the layers kept of the objects wanted, when got holds those constructed before
\* the first exception
LayersLoaded(want, got) ==
    [ok |-> \A idx \in 1..3 : got[idx] = want[idx],
     layers |-> [idx \in 1..3 |->
                    IF \A j \in 1..(idx - 1) : got[j] = want[j] THEN got[idx] ELSE <<>>]]

\* loadLevelData: self.layers = [[],[],[]], then LoadLayer(0..2) of the layer
\* files; an exception in an object's constructor ends the load
LoadLayers(defsAll, slotsMod, files) ==
    LayersLoaded([idx \in 1..3 |-> LoadLayer(idx - 1, files[idx])],
                 [idx \in 1..3 |->
                     LoadableObjects(defsAll, slotsMod, LoadLayer(idx - 1, files[idx]), 1)])

NoLayers == <<<<>>, <<>>, <<>>>>

NoObjData ==
    [tileset |-> 0, objnum |-> 0, width |-> 0, height |-> 0, fullslope |-> FALSE,
     r |-> Raised]

\* what newLevel leaves of the object world: no layer files, empty layers,
\* CreateTilesets and LoadTileset(0, 'Pa0_jyotyu'), LoadTileset(1, 'Pa1_nohara')
NewObjects ==
    /\ bgdat = NoLayers
    /\ layers = NoLayers
    /\ ObjectDefinitions = LoadTilesets(CreateTilesets, NewTilesets, 0)
    /\ TilesetSlotsModEnabled = FALSE
    /\ deffile = <<>>
    /\ objdef = [ok |-> FALSE, rows |-> <<>>, offset |-> 0]
    /\ objdata = NoObjData

-----------------------------------------------------------------------------
(* The editor window: the dirty flags, the level files and the autosave settings *)

\* the first byte of an LZ-compressed file, and of the U8 magic 'U\xAA8-'
LzTag == 17

U8Tag == 85

\* file names: a.arc, b.arc.LZ, and files that do not load
NameArc == <<97, 46, 97, 114, 99>>

NameLz == <<98, 46, 97, 114, 99, 46, 76, 90>>

NameBad == <<99, 46, 97, 114, 99>>

NameNoCourse == <<100, 46, 97, 114, 99>>

NameShort == <<101, 46, 97, 114, 99>>

NameText == <<116, 46, 116, 120, 116>>

FileNames == {NameArc, NameLz, NameBad, NameNoCourse, NameShort, NameText}

\* str.lower on one character
Lower(c) == IF c \in 65..90 THEN c + 32 ELSE c

\* fn.lower().endswith('.lz')
EndsWithLz(fn) ==
    /\ Len(fn) >= 3
    /\ <<Lower(fn[Len(fn) - 2]), Lower(fn[Len(fn) - 1]), Lower(fn[Len(fn)])>> = <<46, 108, 122>>

\* A file: its first byte, whether an LZ stream that decompresses follows the tag
\* byte (packed), whether the data, decompressed where packed, is a U8 archive
\* that loads (archive), mentions the course folder (named) and holds
\* course1.bin (hascourse), the course file and the three layer files.
NoFile ==
    [exists |-> FALSE, first |-> 0, packed |-> FALSE, archive |-> FALSE, named |-> FALSE,
     hascourse |-> FALSE, course |-> <<>>, lays |-> <<<<>>, <<>>, <<>>>>]

\* arc._dump() of an archive with the course file c and the layer files lays
U8Dump(c, lays) ==
    [exists |-> TRUE, first |-> U8Tag, packed |-> FALSE, archive |-> TRUE, named |-> TRUE,
     hascourse |-> TRUE, course |-> c, lays |-> lays]

\* lz77.LZS11().Compress11LZS: the tag byte 0x11, the size and the token stream
Compress11LZS(arcdata) == [arcdata EXCEPT !.first = LzTag, !.packed = TRUE]

\* Decompress11LZS: ok is FALSE where it raises
Decompress11LZS(arcdata) ==
    [ok |-> arcdata.packed,
     data |-> [arcdata EXCEPT !.first = IF arcdata.archive THEN U8Tag ELSE 0,
                              !.packed = FALSE]]

\* arcdata.startswith(b'\x11')
StartsWithLz(arcdata) == arcdata.exists /\ arcdata.first = LzTag

\* IsNSMBLevel
IsNSMBLevel(arcdata) ==
    IF ~arcdata.exists THEN FALSE
    ELSE IF arcdata.first = LzTag THEN TRUE
    ELSE IF arcdata.first = U8Tag THEN arcdata.named
    ELSE FALSE

\* a save that compresses whatever its argument is, when the level is compressed
SaveCompressLevelOnly(compress, levelCompressed) == levelCompressed

\* LevelUnit.save: "if compress is None: compress = self.isCompressed"; compress
\* is "None", "True" or "False"
SaveCompress(compress, levelCompressed) ==
    IF compress = "None" THEN levelCompressed ELSE compress = "True"

\* what a handler returned ("True", "False", "None", or "raised" when an
\* exception left it), and the error it caught
Returned(op, value) == [op |-> op, value |-> value, error |-> ""]

\* the handler caught IOError and returned False
IOFailed(op) == [op |-> op, value |-> "False", error |-> "IOError"]

\* 'none' and b'x', the values of the settings that stand for no autosave
StrNone == <<110, 111, 110, 101>>

NoData == NoFile

\* the settings while no autosave is stored
NoAutosave == [AutoSaveFilePath |-> StrNone, AutoSaveFileData |-> NoData]

\* a folder without files
NoDisk == [fn \in FileNames |-> NoFile]

\* the globals at the start of the program
NewWindow ==
    /\ Dirty = FALSE
    /\ AutoSaveDirty = FALSE
    /\ DirtyOverride = 0
    /\ OverrideSnapping = FALSE
    /\ isCompressed = FALSE
    /\ arcname = None
    /\ AutoSaveSettings = NoAutosave
    /\ scene = "level"
    /\ ret = Returned("start", "None")

\* SetDirty(noautosave): AutoSaveDirty and Dirty after the call, from the values
\* of the three globals before it
SetDirtyAuto(override, auto, noautosave) ==
    IF override > 0 THEN auto ELSE IF noautosave THEN auto ELSE TRUE

SetDirtyDirty(override, dirty) == IF override > 0 THEN dirty ELSE TRUE

SetDirty(noautosave) ==
    /\ AutoSaveDirty' = SetDirtyAuto(DirtyOverride, AutoSaveDirty, noautosave)
    /\ Dirty' = SetDirtyDirty(DirtyOverride, Dirty)

\* what a handler that edits the level does to the window: SetDirty()
Edited ==
    /\ SetDirty(FALSE)
    /\ ret' = Returned("edit", "None")
    /\ UNCHANGED <<DirtyOverride, OverrideSnapping, isCompressed, arcname, disk, AutoSaveSettings,
                   scene>>

-----------------------------------------------------------------------------
(* The document: newLevel, loadLevelData, save *)

NewOptions ==
    [defEventsA |-> 0, defEventsB |-> 0, wrapFlag |-> 0, timeLimit |-> 300, unk1 |-> 0,
     startEntrance |-> 0, unk2 |-> 0, unk3 |-> 0]

\* LevelUnit.newLevel in a window that was just started
NewDocument ==
    /\ pc = "new"
    /\ input = <<>>
    /\ course = <<>>
    /\ blocks = [NoBlocks EXCEPT ![3] = Zeros(8)]
    /\ rddata = <<>>
    /\ info = DefaultInfo
    /\ tilesets = NewTilesets
    /\ options = NewOptions
    /\ entrances = <<>>
    /\ sprites = <<>>
    /\ zones = <<>>
    /\ bounding = <<>>
    /\ bgA = <<>>
    /\ bgB = <<>>
    /\ locations = <<>>
    /\ camprofiles = <<>>
    /\ pathdata = <<>>
    /\ NewObjects
    /\ NewWindow

\* the new level of a program started in an empty folder
newLevel == NewDocument /\ disk = NoDisk

Editable == pc \in {"new", "edit", "loaded", "saved"}

\* ReggieWindow.LoadLevel creates a new LevelUnit, then LevelUnit.loadLevelData from
\* the course file on: the block split, the Load* calls in order and the metadata.
\* An exception raised by a Load* call ends the load (pc = "loaderror"); what was
\* not assigned before it is shown with the value of an empty document. After the
\* metadata come CreateTilesets, LoadTileset for the four names, and LoadLayer for
\* the three layer files.
loadCourse(c, files) ==
    LET blks == CourseSplit(c)
        ok1 == Len(blks[0]) >= 128 /\ Len(blks[1]) >= 20
        ok2 == ok1 /\ ZonesLoadable(blks)
        ok3 == ok2 /\ PathsLoadable(blks)
        defsAll == LoadTilesets(CreateTilesets, LoadMetadata(blks[0]), 0)
    IN  /\ Len(c) >= 112
        /\ course' = c
        /\ bgdat' = files
        /\ blocks' = blks
        /\ tilesets' = IF ok1 THEN LoadMetadata(blks[0]) ELSE <<<<>>, <<>>, <<>>, <<>>>>
        /\ options' = IF ok1 THEN LoadOptions(blks[1]) ELSE NewOptions
        /\ entrances' = IF ok1 THEN LoadEntrances(blks[6]) ELSE <<>>
        /\ sprites' = IF ok1 THEN LoadSprites(blks[7]) ELSE <<>>
        /\ bounding' = IF ok1 THEN LoadBounding(blks[2]) ELSE <<>>
        /\ bgA' = IF ok1 THEN LoadBg(blks[4]) ELSE <<>>
        /\ bgB' = IF ok1 THEN LoadBg(blks[5]) ELSE <<>>
        /\ zones' = IF ok2 THEN LoadZones(blks) ELSE <<>>
        /\ locations' = IF ok2 THEN LoadLocations(blks[10]) ELSE <<>>
        /\ camprofiles' = IF ok2 THEN LoadCamProfiles(blks[11]) ELSE <<>>
        /\ pathdata' = IF ok3 THEN LoadPaths(blks) ELSE <<>>
        /\ rddata' = IF ok3 THEN CourseMetadata(c) ELSE <<>>
        /\ info' = IF ok3 THEN LoadReggieInfo(CourseMetadata(c), UnpackI(c, 0) = 112)
                   ELSE DefaultInfo
        /\ ObjectDefinitions' = IF ok3 THEN defsAll ELSE ObjectDefinitions
        /\ \E lay \in {IF ok3 THEN LoadLayers(defsAll, TilesetSlotsModEnabled, files)
                         ELSE [ok |-> FALSE, layers |-> NoLayers]} :
               /\ layers' = lay.layers
               /\ pc' = IF lay.ok THEN "loaded" ELSE "loaderror"
        /\ UNCHANGED <<input, TilesetSlotsModEnabled, deffile, objdef, objdata>>

\* ReggieWindow.LoadLevel around the load of the file fn, LZ-compressed or not:
\* Dirty and DirtyOverride before the load, OverrideSnapping around it, the scene
\* and DirtyOverride after it; the statements after the load are not reached when
\* the load raised (pc' = "loaderror")
LoadLevelWindow(fn, compressed) ==
    /\ Dirty' = FALSE
    /\ DirtyOverride' = IF pc' = "loaded" THEN DirtyOverride ELSE DirtyOverride + 1
    /\ OverrideSnapping' = (pc' # "loaded")
    /\ scene' = IF pc' = "loaded" THEN "level" ELSE "clear"
    /\ isCompressed' = compressed
    /\ arcname' = fn
    /\ ret' = Returned("LoadLevel", IF pc' = "loaded" THEN "True" ELSE "raised")
    /\ UNCHANGED <<AutoSaveDirty, disk, AutoSaveSettings>>

\* LoadLevel with the archive a.arc, not compressed, that holds the course file c
\* and the layer files
loadArchive(c, files) == loadCourse(c, files) /\ LoadLevelWindow(NameArc, FALSE)

\* loading an archive whose layer files are the ones at hand
loadLevelData(c) == loadArchive(c, bgdat)

\* save, first part: SortSpritesByZone, SaveMetadata, SaveOptions, SaveEntrances,
\* SaveSprites, SaveLoadedSprites, SaveZones
SaveRecords ==
    /\ Editable
    /\ LET sorted == SortSpritesByZone(sprites, zones)
           zs == SaveZones(zones)
       IN  /\ sprites' = sorted
           /\ zones' = zs.zones
           /\ blocks' = [blocks EXCEPT ![0] = SaveMetadata(tilesets),
                                       ![1] = SaveOptions(options),
                                       ![6] = SaveEntrances(entrances, zones),
                                       ![7] = SaveSprites(sorted),
                                       ![8] = SaveLoadedSprites(sorted),
                                       ![2] = zs.b2, ![4] = zs.b4, ![5] = zs.b5,
                                       ![9] = zs.b9]
    /\ pc' = "zonessaved"
    /\ UNCHANGED winvars
    /\ UNCHANGED objvars
    /\ UNCHANGED <<input, course, rddata, info, tilesets, options, entrances, bounding,
                   bgA, bgB, locations, camprofiles, pathdata>>

\* save, second part: SaveLocations, SaveCamProfiles, SavePaths, SaveReggieInfo
\* (which returned rdata), the course file and the three layer files (SaveLayer)
SaveCourseWith(rdata) ==
    /\ pc = "zonessaved"
    /\ LET cam == SaveCamProfiles(camprofiles, blocks[2])
           pth == SavePaths(pathdata)
           blks == [blocks EXCEPT ![10] = SaveLocations(locations),
                                  ![11] = cam.b11, ![2] = cam.b2,
                                  ![12] = pth.b12, ![13] = pth.b13]
       IN  /\ blocks' = blks
           /\ course' = CourseJoin(blocks', rdata)
    /\ bgdat' = [i \in 1..3 |-> SaveLayer(layers[i])]
    /\ pc' = "saved"
    /\ UNCHANGED winvars
    /\ UNCHANGED <<input, rddata, recvars, layers, ObjectDefinitions,
                   TilesetSlotsModEnabled, deffile, objdef, objdata>>

\* the second part of save when the value strings are distinct objects
SaveCourse == SaveCourseWith(SaveReggieInfo(info))

\* loading the file the last save wrote
Reload ==
    /\ pc = "saved"
    /\ loadLevelData(course)


-----------------------------------------------------------------------------
(* Editor operations that change the record lists *)

MaxEntrances == 2
MaxSprites == 2
MaxLocations == 1
MaxZones == 2
MaxZoneItems == 1
MaxCamZones == 5
MaxCamProfiles == 2
MaxPaths == 2
MaxNodes == 2

\* getids.index(False): the smallest id from `from` on that is not in use
FirstFreeID(used, from) ==
    CHOOSE i \in from..255 : i \notin used /\ \A j \in from..(i - 1) : j \in used

\* list.insert(idx, e)
InsertAt(seq, idx, e) ==
    IF idx >= Len(seq) THEN Append(seq, e)
    ELSE SubSeq(seq, 1, idx) \o <<e>> \o SubSeq(seq, idx + 1, Len(seq))

\* del seq[idx] / list.pop(idx), idx 0-based
RemoveAt(seq, idx) == SubSeq(seq, 1, idx) \o SubSeq(seq, idx + 2, Len(seq))

\* LevelViewWidget.mousePressEvent, CurrentPaintType == 5: paint an entrance
PaintEntrance(limit, clickedx, clickedy) ==
    /\ Editable
    /\ Len(entrances) < limit
    /\ LET minimumID == FirstFreeID({entrances[i].entid : i \in 1..Len(entrances)}, 0)
           ent == EntranceEditorItem(clickedx, clickedy, minimumID, 0, 0, 0, 0, 0, 0, 0, 0, 0)
       IN  entrances' = InsertAt(entrances, minimumID, ent)
    /\ pc' = "edit"
    /\ Edited
    /\ UNCHANGED objvars
    /\ UNCHANGED <<input, course, blocks, rddata, info, tilesets, options, sprites, zones,
                   bounding, bgA, bgB, locations, camprofiles, pathdata>>

\* LevelViewWidget.mousePressEvent, CurrentPaintType == 4: paint a sprite
PaintSprite(limit, CurrentSprite, clickedx, clickedy, data) ==
    /\ Editable
    /\ Len(sprites) < limit
    /\ sprites' = Append(sprites, SpriteEditorItem(CurrentSprite, clickedx, clickedy, data))
    /\ pc' = "edit"
    /\ Edited
    /\ UNCHANGED objvars
    /\ UNCHANGED <<input, course, blocks, rddata, info, tilesets, options, entrances, zones,
                   bounding, bgA, bgB, locations, camprofiles, pathdata>>

\* LevelViewWidget.mousePressEvent, CurrentSprite == 1000: paint a location
PaintLocation(clickedx, clickedy) ==
    /\ Editable
    /\ Len(locations) < MaxLocations
    /\ LET newID == FirstFreeID({locations[i].id : i \in 1..Len(locations)}, 1)
       IN  locations' = Append(locations, LocationEditorItem(clickedx, clickedy, 4, 4, newID))
    /\ pc' = "edit"
    /\ Edited
    /\ UNCHANGED objvars
    /\ UNCHANGED <<input, course, blocks, rddata, info, tilesets, options, entrances, sprites,
                   zones, bounding, bgA, bgB, camprofiles, pathdata>>

\* QSpinBox.setRange(lo, hi) followed by setValue(v)
SpinValue(v, lo, hi) == IF v < lo THEN lo ELSE IF v > hi THEN hi ELSE v

\* CameraModeZoomSettingsLayout.ChangeCamModeList: the length of the screen size list
ScreenSizeCount(mode) == IF mode = 2 THEN 8 ELSE IF mode \in {3, 4, 5} THEN 10 ELSE 11

\* ZoneTab.ChangeVisibilityList: the length of the visibility list
VisibilityCount(spotlight, fulldark) ==
    IF ~fulldark THEN (IF ~spotlight THEN 2 ELSE 3) ELSE (IF ~spotlight THEN 6 ELSE 1)

\* ZoneTab shows the fields of a zone in its widgets and ReggieWindow.HandleZones reads
\* them back: every field takes the value its widget can hold
ResyncFields(z) ==
    LET cammode == SpinValue(z.cammode, 0, 7)
        spotlight == (z.visibility \div 16) % 2 = 1
        fulldark == (z.visibility \div 32) % 2 = 1
        vchoice == Min(z.visibility % 16, VisibilityCount(spotlight, fulldark) - 1)
        sfx == Min(z.sfxmod \div 16, 14)
    IN  [z EXCEPT !.cammode = cammode,
                  !.camzoom = SpinValue(z.camzoom, 0, ScreenSizeCount(cammode) - 1),
                  !.direction = SpinValue(z.direction, 0, 7),
                  !.mpcamzoomadjust = IF z.mpcamzoomadjust = 15 THEN 15
                                      ELSE IF z.mpcamzoomadjust < 15 THEN z.mpcamzoomadjust
                                      ELSE 0,
                  !.modeldark = SpinValue(z.modeldark, 0, 22),
                  !.terraindark = SpinValue(z.terraindark, 0, 3),
                  !.visibility = vchoice + (IF spotlight THEN 16 ELSE 0)
                                         + (IF fulldark THEN 32 ELSE 0),
                  !.yupperbound = SpinValue(z.yupperbound, -32768, 32767),
                  !.ylowerbound = SpinValue(z.ylowerbound, -32768, 32767),
                  !.yupperbound2 = SpinValue(z.yupperbound2, -32768, 32767),
                  !.ylowerbound2 = SpinValue(z.ylowerbound2, -32768, 32767),
                  !.yupperbound3 = SpinValue(z.yupperbound3, -32768, 32767),
                  !.ylowerbound3 = SpinValue(z.ylowerbound3, -32768, 32767),
                  !.music = SpinValue(z.music, 0, 255),
                  !.sfxmod = sfx * 16 + (IF z.sfxmod % 16 # 0 THEN 1 ELSE 0)]

\* ReggieWindow.HandleZones, per tab: the zone renumbered to its place in the list,
\* position and size taken from the spin boxes and clamped to the level area, the
\* other fields read back from their widgets
ResyncZone(z, i, xv, yv, wv, hv) ==
    [ResyncFields(z) EXCEPT
              !.id = i,
              !.objx = IF xv < 16 THEN 16 ELSE IF xv > 24560 THEN 24560 ELSE xv,
              !.objy = IF yv < 16 THEN 16 ELSE IF yv > 12272 THEN 12272 ELSE yv,
              !.width = IF wv + xv > 24560 THEN 24560 - xv ELSE wv,
              !.height = IF hv + yv > 12272 THEN 12272 - yv ELSE hv]

\* HandleZones for a tab the user did not edit: the spin boxes show the zone's values
ResyncUnedited(z, i) ==
    ResyncZone(z, i, SpinValue(z.objx, 16, 65535), SpinValue(z.objy, 16, 65535),
               SpinValue(z.width, 300, 65535), SpinValue(z.height, 200, 65535))

\* ZonesDialog.NewZone: the zone the dialog creates
DialogNewZone(id) ==
    ZoneItem(16, 16, 448, 224, 0, 0, 0, 0, 0, 0, 0, 0, 0, 0, 0, 0,
             <<<<0, 0, 0, 0, 0, 15, 0, 0>>>>, <<<<0, 0, 0, 0, 0, 10, 10, 10, 0>>>>,
             <<<<0, 0, 0, 0, 0, 10, 10, 10, 0>>>>, id)

\* ZonesDialog.NewZone, the user types a position and size, then HandleZones on accept
HandleZonesNew(limit, xv, yv, wv, hv) ==
    /\ Editable
    /\ Len(zones) < limit
    /\ zones' = [i \in 1..(Len(zones) + 1) |->
                    IF i <= Len(zones) THEN ResyncUnedited(zones[i], i - 1)
                    ELSE ResyncZone(DialogNewZone(i - 1), i - 1,
                                    SpinValue(xv, 16, 65535), SpinValue(yv, 16, 65535),
                                    SpinValue(wv, 300, 65535), SpinValue(hv, 200, 65535))]
    /\ pc' = "edit"
    /\ Edited
    /\ UNCHANGED objvars
    /\ UNCHANGED <<input, course, blocks, rddata, info, tilesets, options, entrances, sprites,
                   bounding, bgA, bgB, locations, camprofiles, pathdata>>

\* ZonesDialog.DeleteZone on tab curindex, then HandleZones on accept
HandleZonesDelete(curindex) ==
    /\ Editable
    /\ curindex < Len(zones)
    /\ LET rest == RemoveAt(zones, curindex)
       IN  zones' = [i \in 1..Len(rest) |-> ResyncUnedited(rest[i], i - 1)]
    /\ pc' = "edit"
    /\ Edited
    /\ UNCHANGED objvars
    /\ UNCHANGED <<input, course, blocks, rddata, info, tilesets, options, entrances, sprites,
                   bounding, bgA, bgB, locations, camprofiles, pathdata>>

\* CameraProfilesDialog.handleAdd, the user picks mode and zoom, then
\* HandleCameraProfiles on accept
HandleCameraProfilesAdd(mode, zoom) ==
    /\ Editable
    /\ Len(camprofiles) < MaxCamProfiles
    /\ LET ids == {camprofiles[i][1] + 1 : i \in 1..Len(camprofiles)} \cup {1}
           newId == CHOOSE m \in ids : \A k \in ids : k <= m
       IN  camprofiles' = Append(camprofiles, <<newId, mode, zoom>>)
    /\ pc' = "edit"
    /\ Edited
    /\ UNCHANGED objvars
    /\ UNCHANGED <<input, course, blocks, rddata, info, tilesets, options, entrances, sprites,
                   zones, bounding, bgA, bgB, locations, pathdata>>

\* insertion of one path behind the paths of a sorted list whose id is not larger
InsertPathSorted(paths, p) ==
    LET k == Cardinality({i \in 1..Len(paths) : paths[i].id <= p.id})
    IN  SubSeq(paths, 1, k) \o <<p>> \o SubSeq(paths, k + 1, Len(paths))

\* Level.pathdata.sort(key=lambda path: int(path['id'])): stable sort by id
RECURSIVE SortPaths(_)
SortPaths(paths) ==
    IF paths = <<>> THEN <<>>
    ELSE InsertPathSorted(SortPaths(SubSeq(paths, 1, Len(paths) - 1)), paths[Len(paths)])

\* LevelViewWidget.mousePressEvent, CurrentPaintType == 6, no node selected: new path
PaintPath(clickedx, clickedy) ==
    /\ Editable
    /\ Len(pathdata) < MaxPaths
    /\ LET newpathid == FirstFreeID({pathdata[i].id : i \in 1..Len(pathdata)} \cup {0}, 0)
           newpathdata == [id |-> newpathid,
                           nodes |-> <<[x |-> clickedx, y |-> clickedy, speed |-> DefaultSpeed,
                                        accel |-> DefaultAccel, delay |-> 0]>>,
                           loops |-> FALSE]
       IN  pathdata' = SortPaths(Append(pathdata, newpathdata))
    /\ pc' = "edit"
    /\ Edited
    /\ UNCHANGED objvars
    /\ UNCHANGED <<input, course, blocks, rddata, info, tilesets, options, entrances, sprites,
                   zones, bounding, bgA, bgB, locations, camprofiles>>

\* LevelViewWidget.mousePressEvent, CurrentPaintType == 6, a node of path pi selected
PaintPathNode(pi, clickedx, clickedy) ==
    /\ Editable
    /\ pi \in 1..Len(pathdata)
    /\ Len(pathdata[pi].nodes) \in 1..(MaxNodes - 1)
    /\ pathdata' = [pathdata EXCEPT ![pi].nodes =
                       Append(@, [x |-> clickedx, y |-> clickedy, speed |-> DefaultSpeed,
                                  accel |-> DefaultAccel, delay |-> 0])]
    /\ pc' = "edit"
    /\ Edited
    /\ UNCHANGED objvars
    /\ UNCHANGED <<input, course, blocks, rddata, info, tilesets, options, entrances, sprites,
                   zones, bounding, bgA, bgB, locations, camprofiles>>

\* PathEditorItem.delete: remove node ni of path pi, and the path with its last node
DeletePathNode(pi, ni) ==
    /\ Editable
    /\ pi \in 1..Len(pathdata)
    /\ ni \in 1..Len(pathdata[pi].nodes)
    /\ pathdata' = IF Len(pathdata[pi].nodes) = 1 THEN RemoveAt(pathdata, pi - 1)
                   ELSE [pathdata EXCEPT ![pi].nodes = RemoveAt(@, ni - 1)]
    /\ pc' = "edit"
    /\ Edited
    /\ UNCHANGED objvars
    /\ UNCHANGED <<input, course, blocks, rddata, info, tilesets, options, entrances, sprites,
                   zones, bounding, bgA, bgB, locations, camprofiles>>


-----------------------------------------------------------------------------
(* Course files opened from disk: blocks written by other tools *)

BaseBlocks ==
    [NoBlocks EXCEPT ![0] = SaveMetadata(NewTilesets), ![1] = SaveOptions(NewOptions),
                     ![3] = Zeros(8)]

\* a sprite record as it lies in a file: 8 payload bytes, then the terminator
FileSprites(recs) ==
    Concat([i \in 1..Len(recs) |->
        PackH(recs[i][1]) \o PackH(recs[i][2]) \o PackH(recs[i][3]) \o recs[i][4] \o Zeros(2)])
      \o Fill(4, 255)

FileEntrances(ents) == Concat([i \in 1..Len(ents) |-> PackEntrance(ents[i], ents[i].entzone)])

FileBlocks2(bnds) == Concat([i \in 1..Len(bnds) |-> PackBounding(bnds[i])])

FileBlocksBg(bgs) == Concat([i \in 1..Len(bgs) |-> PackBg(bgs[i])])

FileZones(zs) == Concat([i \in 1..Len(zs) |-> PackZone(zs[i])])

PayloadA == <<1, 2, 3, 4, 5, 6, 7, 8>>

PayloadZ == <<0, 0, 0, 0, 0, 0, 0, 0>>

\* two zones whose zone id fields and companion ids are their positions
TwoZoneBlocks ==
    [BaseBlocks EXCEPT
        ![2] = FileBlocks2(<<<<10, 20, 30, 40, 0, 15, 5, 6>>, <<-1, -2, 11, 21, 1, 3, -5, 7>>>>),
        ![4] = FileBlocksBg(<<<<0, 1, 2, 3, 4, 10, 11, 12, 1>>, <<1, -1, -2, 5, 6, 20, 21, 22, 2>>>>),
        ![5] = FileBlocksBg(<<<<0, 2, 1, -3, -4, 30, 31, 32, 3>>, <<1, 3, 3, 7, 8, 40, 41, 42, 0>>>>),
        ![9] = FileZones(<<<<16, 16, 300, 200, 1, 2, 0, 0, 3, 4, 17, 0, 0, 2, 9, 33>>,
                           <<1000, 16, 300, 200, 0, 0, 1, 1, 0, 0, 0, 1, 1, 0, 0, 0>>>>)]

\* two sprites, the first one nearest to the second zone, the second one in the first
SpriteBlocks ==
    [TwoZoneBlocks EXCEPT
        ![7] = FileSprites(<<<<65535, 696, 104, PayloadA>>, <<3, 104, 104, PayloadZ>>>>)]

SpriteFiles == {CourseJoin(SpriteBlocks, <<>>)}

-----------------------------------------------------------------------------
(* Specification of the sprite codec *)

\* ReggieWindow.LoadLevel replaces the document whatever it was, so opening a file
\* from any state reaches the states that opening it from a new document reaches
CanOpen == pc = "new"

OpenSpriteFile == CanOpen /\ \E c \in SpriteFiles : loadLevelData(c)

PaintSpriteStep ==
    \E p \in {<<104, 104>>, <<696, 104>>} : PaintSprite(MaxSprites, 7, p[1], p[2], PayloadA)

NextSprites ==
    \/ OpenSpriteFile
    \/ PaintSpriteStep
    \/ SaveRecords
    \/ SaveCourse
    \/ Reload

SpecSprites == newLevel /\ [][NextSprites]_vars

\* the sprites decoded from the course file the last save wrote
SavedSprites == LoadSprites(CourseSplit(course)[7])

\* C3 as stated: the decoded sprites have the type, the position and all eight payload
\* bytes of the sprites that were saved
C3_PayloadCopiedUnchanged ==
    pc = "saved" =>
        /\ Len(SavedSprites) = Len(sprites)
        /\ \A i \in 1..Len(sprites) :
               /\ SavedSprites[i].type = sprites[i].type
               /\ SavedSprites[i].objx = sprites[i].objx
               /\ SavedSprites[i].objy = sprites[i].objy
               /\ SavedSprites[i].spritedata = sprites[i].spritedata

\* C3: decoding the sprite block that SaveSprites wrote gives, for every sprite in the
\* order saved, the same type, x and y and the same payload bytes 0 to 5 and 7; payload
\* byte 6 is not copied, the decoded byte 6 is the zone id the save assigned to the sprite
C3_SpriteRoundTrip ==
    pc = "saved" =>
        /\ Len(SavedSprites) = Len(sprites)
        /\ \A i \in 1..Len(sprites) :
               /\ SavedSprites[i].type = sprites[i].type
               /\ SavedSprites[i].objx = sprites[i].objx
               /\ SavedSprites[i].objy = sprites[i].objy
               /\ \A k \in (1..6) \cup {8} :
                      SavedSprites[i].spritedata[k] = sprites[i].spritedata[k]
               /\ SavedSprites[i].spritedata[7] = sprites[i].zoneID

\* two sprites were saved, one of them with a payload byte 6 that is not its zone id
C3_Witness ==
    /\ pc = "saved"
    /\ Len(sprites) >= 2
    /\ \E i \in 1..Len(sprites) : sprites[i].spritedata[7] # sprites[i].zoneID

-----------------------------------------------------------------------------
(* Specification of the entrance and location codecs *)

\* two zones as TwoZoneBlocks, entrances and a location with every field set
EntranceBlocks ==
    [TwoZoneBlocks EXCEPT
        ![6] = FileEntrances(<<
                 EntranceEditorItem(20000, 120, 255, 3, 4, 5, 9, 1, 7, 65535, 1, 2),
                 EntranceEditorItem(100, 100, 0, 1, 255, 20, 0, 2, 255, 258, 0, 3)>>),
        ![10] = SaveLocations(<<LocationEditorItem(65535, 1, 258, 3, 255)>>)]

EntranceFiles == {CourseJoin(EntranceBlocks, <<>>)}

OpenEntranceFile == CanOpen /\ \E c \in EntranceFiles : loadLevelData(c)

PaintEntranceStep == \E p \in {<<700, 100>>, <<100, 513>>} : PaintEntrance(MaxEntrances, p[1], p[2])

PaintLocationStep == PaintLocation(700, 100)

NextEntrances ==
    \/ OpenEntranceFile
    \/ PaintEntranceStep
    \/ PaintLocationStep
    \/ SaveRecords
    \/ SaveCourse
    \/ Reload

SpecEntrances == newLevel /\ [][NextEntrances]_vars

\* the entrances and locations decoded from the course file the last save wrote
SavedEntrances == LoadEntrances(CourseSplit(course)[6])

SavedLocations == LoadLocations(CourseSplit(course)[10])

-----------------------------------------------------------------------------
(* Specification of the zone ids given to entrances and sprites *)

ZoneSpots == {<<16, 16, 300, 200>>, <<1000, 16, 300, 200>>}

NewZoneStep == \E z \in ZoneSpots : HandleZonesNew(MaxZones, z[1], z[2], z[3], z[4])

DeleteZoneStep == HandleZonesDelete(0)

PaintZoneEntrance == PaintEntrance(MaxZoneItems, 700, 100)

PaintZoneSprite == PaintSprite(MaxZoneItems, 7, 696, 104, PayloadA)

OpenZoneIdFile == CanOpen /\ loadLevelData(CourseJoin(TwoZoneBlocks, <<>>))

NextZoneIds ==
    \/ OpenZoneIdFile
    \/ NewZoneStep
    \/ DeleteZoneStep
    \/ PaintZoneEntrance
    \/ PaintZoneSprite
    \/ SaveRecords
    \/ SaveCourse

SpecZoneIds == newLevel /\ [][NextZoneIds]_vars

\* squared Euclidean distance from (x, y) to the rectangle of zone z
RectDistSq(z, x, y) ==
    LET dx == IF x < z.objx THEN z.objx - x
              ELSE IF x > z.objx + z.width THEN x - (z.objx + z.width) ELSE 0
        dy == IF y < z.objy THEN z.objy - y
              ELSE IF y > z.objy + z.height THEN y - (z.objy + z.height) ELSE 0
    IN  dx * dx + dy * dy

\* the zone ids C4 allows for a position: the 0-based place of the first zone that
\* contains it, else the place of a zone at the smallest distance, 0 without zones
PositionZoneIDs(zs, x, y) ==
    LET inside == {i \in 1..Len(zs) : RectContains(zs[i], x, y)}
        nearest == {i \in 1..Len(zs) :
                       \A j \in 1..Len(zs) : RectDistSq(zs[i], x, y) <= RectDistSq(zs[j], x, y)}
    IN  IF zs = <<>> THEN {0}
        ELSE IF inside # {} THEN {(CHOOSE i \in inside : \A j \in inside : i <= j) - 1}
        ELSE {i - 1 : i \in nearest}

\* C4: after the save wrote the entrances and sorted the sprites, the zone id written
\* for every entrance and the zone id of every sprite is the 0-based place of the first
\* zone containing its position, else the place of the nearest zone, 0 without zones
C4_ZoneIdIsPosition ==
    pc = "zonessaved" =>
        /\ \A i \in 1..Len(entrances) :
               LoadEntrances(blocks[6])[i].entzone
                   \in PositionZoneIDs(zones, entrances[i].objx, entrances[i].objy)
        /\ \A i \in 1..Len(sprites) :
               sprites[i].zoneID \in PositionZoneIDs(zones, sprites[i].objx, sprites[i].objy)

-----------------------------------------------------------------------------
(* Specification of the zones and their companion records *)

\* the first zone references companion id 1, the second one id 0, which two records
\* of every companion block carry
DupZoneBlocks ==
    [BaseBlocks EXCEPT
        ![2] = FileBlocks2(<<<<10, 20, 30, 40, 1, 15, 5, 6>>, <<-1, -2, 11, 21, 0, 3, -5, 7>>,
                             <<100000, 8, 9, -40000, 0, 20, 1, 2>>>>),
        ![4] = FileBlocksBg(<<<<1, 1, 2, 3, 4, 10, 11, 12, 1>>, <<0, -1, -2, 5, 6, 20, 21, 22, 2>>,
                              <<0, 9, 8, 7, 6, 50, 51, 52, 3>>>>),
        ![5] = FileBlocksBg(<<<<1, 2, 1, -3, -4, 30, 31, 32, 3>>, <<0, 3, 3, 7, 8, 40, 41, 42, 0>>,
                              <<0, 4, 4, 4, 4, 60, 61, 62, 1>>>>),
        ![9] = FileZones(<<<<16, 16, 300, 200, 1, 2, 1, 1, 3, 4, 17, 1, 1, 2, 9, 33>>,
                           <<1000, 16, 300, 200, 30, 9, 0, 0, 2, 9, 70, 0, 0, 8, 255, 242>>>>)]

\* zone records whose bounding records are missing
UnresolvableBlocks == [TwoZoneBlocks EXCEPT ![2] = <<>>]

ZoneFiles == {CourseJoin(DupZoneBlocks, <<>>), CourseJoin(UnresolvableBlocks, <<>>)}

OpenZoneFile == CanOpen /\ \E c \in ZoneFiles : loadLevelData(c)

NextZones ==
    \/ OpenZoneFile
    \/ NewZoneStep
    \/ DeleteZoneStep
    \/ SaveRecords
    \/ SaveCourse
    \/ Reload

SpecZones == newLevel /\ [][NextZones]_vars

\* the bounding and background values a zone holds, in the field order of the records
ZoneBounding(z) ==
    <<z.yupperbound, z.ylowerbound, z.yupperbound2, z.ylowerbound2, z.entryid,
      z.mpcamzoomadjust, z.yupperbound3, z.ylowerbound3>>

ZoneBgA(z) ==
    <<z.entryidA, z.XscrollA, z.YscrollA, z.YpositionA, z.XpositionA, z.bg1A, z.bg2A, z.bg3A,
      z.ZoomA>>

ZoneBgB(z) ==
    <<z.entryidB, z.XscrollB, z.YscrollB, z.YpositionB, z.XpositionB, z.bg1B, z.bg2B, z.bg3B,
      z.ZoomB>>

\* the places in a companion list of the records that carry the id
Matches(list, k, id) == {n \in 1..Len(list) : list[n][k] = id}

FirstOf(S) == CHOOSE n \in S : \A m \in S : n <= m

LastOf(S) == CHOOSE n \in S : \A m \in S : m <= n

\* C6 as stated: a loaded zone has the values of the first bounding, background-A and
\* background-B record that carries the id the zone references
C6_FirstMatchWins ==
    pc = "loaded" =>
        \A i \in 1..Len(zones) :
            /\ ZoneBounding(zones[i]) = bounding[FirstOf(Matches(bounding, 5, zones[i].block3id))]
            /\ ZoneBgA(zones[i]) = bgA[FirstOf(Matches(bgA, 1, zones[i].block5id))]
            /\ ZoneBgB(zones[i]) = bgB[FirstOf(Matches(bgB, 1, zones[i].block6id))]

\* C6: a zone constructed from loaded data has the values of the last bounding,
\* background-A and background-B record in the block that carries the id the zone
\* references
C6_LastMatchWins ==
    pc = "loaded" =>
        \A i \in 1..Len(zones) :
            /\ ZoneBounding(zones[i]) = bounding[LastOf(Matches(bounding, 5, zones[i].block3id))]
            /\ ZoneBgA(zones[i]) = bgA[LastOf(Matches(bgA, 1, zones[i].block5id))]
            /\ ZoneBgB(zones[i]) = bgB[LastOf(Matches(bgB, 1, zones[i].block6id))]

\* a file was loaded in which two different records of every companion block carry
\* the id a zone references
C6_Witness ==
    /\ pc = "loaded"
    /\ \E i \in 1..Len(zones) :
           /\ \E m, n \in Matches(bounding, 5, zones[i].block3id) : bounding[m] # bounding[n]
           /\ \E m, n \in Matches(bgA, 1, zones[i].block5id) : bgA[m] # bgA[n]
           /\ \E m, n \in Matches(bgB, 1, zones[i].block6id) : bgB[m] # bgB[n]

\* C7: after SaveZones the bounding, background-A, background-B and zone blocks each
\* hold exactly one 24-byte record per zone, companion record i carries id i, zone
\* record i references ids i, and loading these blocks resolves every zone to the
\* bounding and background values the zone has in memory
C7_SaveZonesRenumbers ==
    pc = "zonessaved" =>
        LET n == Len(zones)
            re == LoadZones(blocks)
        IN  /\ Len(blocks[2]) = 24 * n /\ Len(blocks[4]) = 24 * n
            /\ Len(blocks[5]) = 24 * n /\ Len(blocks[9]) = 24 * n
            /\ \A i \in 0..(n - 1) :
                   /\ UnpackH(blocks[2], 24 * i + 16) = i
                   /\ UnpackB(blocks[4], 24 * i + 1) = i
                   /\ UnpackB(blocks[5], 24 * i + 1) = i
                   /\ UnpackB(blocks[9], 24 * i + 13) = i
                   /\ UnpackB(blocks[9], 24 * i + 18) = i
                   /\ UnpackB(blocks[9], 24 * i + 19) = i
            /\ ZonesLoadable(blocks)
            /\ Len(re) = n
            /\ \A i \in 1..n :
                   /\ [ZoneBounding(re[i]) EXCEPT ![5] = 0] = [ZoneBounding(zones[i]) EXCEPT ![5] = 0]
                   /\ [ZoneBgA(re[i]) EXCEPT ![1] = 0] = [ZoneBgA(zones[i]) EXCEPT ![1] = 0]
                   /\ [ZoneBgB(re[i]) EXCEPT ![1] = 0] = [ZoneBgB(zones[i]) EXCEPT ![1] = 0]

\* two zones were saved whose companion ids in memory are not their places in the list
\* and whose bounding values differ
C7_Witness ==
    /\ pc = "zonessaved"
    /\ Len(zones) = 2
    /\ zones[1].block3id # 0
    /\ zones[2].block5id # 1
    /\ ZoneBounding(zones[1]) # ZoneBounding(zones[2])

-----------------------------------------------------------------------------
(* Specification of the camera profiles *)

NewCamZone == HandleZonesNew(MaxCamZones, 16, 16, 300, 200)

AddProfile == HandleCameraProfilesAdd(1, 2)

NextCamera ==
    \/ NewCamZone
    \/ AddProfile
    \/ SaveRecords
    \/ SaveCourse
    \/ Reload

SpecCamera == newLevel /\ [][NextCamera]_vars

\* C10: when a non-empty list of n camera profiles is saved, block 11 is 20 * (n + 1)
\* bytes long, its first 20 bytes are zero, record i holds profile i of the list,
\* the bounding block holds the zones' records and one record more, every profile record
\* carries in its bounding-id field the id of that last record, and no zone's bounding
\* record carries that id
C10_CamProfileEncode ==
    (pc = "saved" /\ camprofiles # <<>>) =>
        LET n == Len(camprofiles)
            nz == Len(zones)
            extra == UnpackH(blocks[2], 24 * nz + 16)
        IN  /\ Len(blocks[11]) = 20 * (n + 1)
            /\ Slice(blocks[11], 0, 20) = Zeros(20)
            /\ \A i \in 1..n :
                   /\ UnpackB(blocks[11], 20 * i + 18) = camprofiles[i][1]
                   /\ UnpackB(blocks[11], 20 * i + 13) = camprofiles[i][2]
                   /\ UnpackB(blocks[11], 20 * i + 14) = camprofiles[i][3]
                   /\ UnpackB(blocks[11], 20 * i + 12) = extra
            /\ Len(blocks[2]) = 24 * (nz + 1)
            /\ Slice(blocks[2], 0, 24 * nz) = SaveZones(zones).b2
            /\ \A i \in 0..(nz - 1) : UnpackH(blocks[2], 24 * i + 16) # extra

\* two profiles were saved in a level with the largest number of zones
C10_Witness ==
    /\ pc = "saved"
    /\ Len(camprofiles) >= 2
    /\ Len(zones) = MaxCamZones

-----------------------------------------------------------------------------
(* Specification of the paths *)

FilePaths(recs) ==
    Concat([i \in 1..Len(recs) |->
        PackB(recs[i][1]) \o Zeros(1) \o PackH(recs[i][2]) \o PackH(recs[i][3])
            \o PackH(recs[i][4])])

FileNodes(nodes) == SavePathNodes(Zeros(Len(nodes) * 16), 0, nodes)

\* path 1 without nodes, path 2 with one node
ZeroNodeBlocks ==
    [BaseBlocks EXCEPT
        ![12] = FilePaths(<<<<1, 0, 0, 0>>, <<2, 0, 1, 0>>>>),
        ![13] = FileNodes(<<[x |-> 300, y |-> 200, speed |-> DefaultSpeed,
                             accel |-> DefaultSpeed, delay |-> 0]>>)]

\* the looping path 5 with two nodes
LoopBlocks ==
    [BaseBlocks EXCEPT
        ![12] = FilePaths(<<<<5, 0, 2, 2>>>>),
        ![13] = FileNodes(<<[x |-> 65535, y |-> 1, speed |-> [kind |-> "f32", bits |-> <<64, 0, 0, 0>>],
                             accel |-> DefaultSpeed, delay |-> -2],
                            [x |-> 258, y |-> 513, speed |-> DefaultSpeed,
                             accel |-> [kind |-> "f32", bits |-> <<191, 128, 0, 0>>],
                             delay |-> 300]>>)]

PathFiles == {CourseJoin(ZeroNodeBlocks, <<>>), CourseJoin(LoopBlocks, <<>>)}

OpenPathFile == CanOpen /\ \E c \in PathFiles : loadLevelData(c)

PaintPathStep == PaintPath(104, 96)

PaintPathNodeStep == \E pi \in 1..MaxPaths : PaintPathNode(pi, 104, 96)

DeletePathNodeStep == \E pi \in 1..MaxPaths : DeletePathNode(pi, 1)

NextPaths ==
    \/ OpenPathFile
    \/ PaintPathStep
    \/ PaintPathNodeStep
    \/ DeletePathNodeStep
    \/ SaveRecords
    \/ SaveCourse
    \/ Reload

SpecPaths == newLevel /\ [][NextPaths]_vars

\* the paths of the list that have at least one node
WithNodes == SelectSeq(pathdata, LAMBDA path : Len(path.nodes) >= 1)

\* C8: the path block the save wrote holds one 8-byte record per path that has at
\* least one node and nothing else, and loading it yields exactly those paths
C8_ZeroNodePathsDropped ==
    pc = "saved" =>
        /\ Len(blocks[12]) = 8 * Len(WithNodes)
        /\ Len(LoadPaths(CourseSplit(course))) = Len(WithNodes)

\* nodes compared by position, delay and the bytes of speed and accel
SameNode(a, b) ==
    /\ a.x = b.x /\ a.y = b.y /\ a.delay = b.delay
    /\ PackF(a.speed) = PackF(b.speed) /\ PackF(a.accel) = PackF(b.accel)

\* C9: when every path has at least one node, the path record of each path holds as
\* start index the number of nodes of the paths before it and as count its own number
\* of nodes, and loading the two blocks yields the same paths in the same order with
\* the same id, loop flag and nodes
C9_PathRoundTrip ==
    (pc = "saved" /\ WithNodes = pathdata) =>
        LET blks == CourseSplit(course)
            re == LoadPaths(blks)
        IN  /\ Len(re) = Len(pathdata)
            /\ \A i \in 1..Len(pathdata) :
                   /\ UnpackH(blks[12], 8 * (i - 1) + 2) = NodeCount(SubSeq(pathdata, 1, i - 1))
                   /\ UnpackH(blks[12], 8 * (i - 1) + 4) = Len(pathdata[i].nodes)
                   /\ re[i].id = pathdata[i].id
                   /\ re[i].loops = pathdata[i].loops
                   /\ Len(re[i].nodes) = Len(pathdata[i].nodes)
                   /\ \A k \in 1..Len(pathdata[i].nodes) :
                          SameNode(re[i].nodes[k], pathdata[i].nodes[k])

\* two paths with nodes were saved, the first one with two nodes, one of them looping
C9_Witness ==
    /\ pc = "saved"
    /\ WithNodes = pathdata
    /\ Len(pathdata) >= 2
    /\ Len(pathdata[1].nodes) >= 2
    /\ \E i \in 1..Len(pathdata) : pathdata[i].loops

-----------------------------------------------------------------------------
(* Specification of the block table: a course file is split, then joined again *)

\* block length patterns: all empty, all one byte, one block of MaxBlockLen bytes,
\* every other block of MaxBlockLen bytes
BlockLens ==
    {[i \in BlockIdx |-> 0], [i \in BlockIdx |-> 1],
     [i \in BlockIdx |-> IF i = 0 THEN MaxBlockLen ELSE 0],
     [i \in BlockIdx |-> IF i = 7 THEN MaxBlockLen ELSE 0],
     [i \in BlockIdx |-> IF i % 2 = 0 THEN MaxBlockLen ELSE 0],
     [i \in BlockIdx |-> IF i % 2 = 1 THEN MaxBlockLen ELSE 0]}

\* a course file written by some tool: the header, m metadata bytes at 0x70 and the
\* blocks one after the other; with zeroOff the tool leaves the offset of an empty
\* block (other than block 0, whose offset ends the metadata) at 0
FileBlob(m, lens, zeroOff) ==
    LET start(i) == 112 + m + SumLen([j \in 1..i |-> Zeros(lens[j - 1])])
        header == Concat([k \in 1..14 |->
                     PackI(IF zeroOff /\ k > 1 /\ lens[k - 1] = 0 THEN 0 ELSE start(k - 1))
                         \o PackI(lens[k - 1])])
        meta == [j \in 1..m |-> 200 + j]
        body == Concat([k \in 1..14 |-> [j \in 1..lens[k - 1] |-> 16 * k + j]])
    IN  header \o meta \o body

TableInit ==
    /\ pc = "input"
    /\ input \in {FileBlob(m, lens, z) : m \in 0..MaxMetaLen, lens \in BlockLens,
                                         z \in BOOLEAN}
    /\ course = <<>>
    /\ blocks = NoBlocks
    /\ rddata = <<>>
    /\ info = DefaultInfo
    /\ tilesets = NewTilesets
    /\ options = NewOptions
    /\ entrances = <<>>
    /\ sprites = <<>>
    /\ zones = <<>>
    /\ bounding = <<>>
    /\ bgA = <<>>
    /\ bgB = <<>>
    /\ locations = <<>>
    /\ camprofiles = <<>>
    /\ pathdata = <<>>
    /\ NewObjects
    /\ NewWindow
    /\ disk = NoDisk

\* loadLevelData: the block table and the metadata region
Split ==
    /\ pc = "input"
    /\ blocks' = CourseSplit(input)
    /\ rddata' = CourseMetadata(input)
    /\ pc' = "split"
    /\ UNCHANGED winvars
    /\ UNCHANGED objvars
    /\ UNCHANGED <<input, course, recvars>>

\* save: the course file from self.blocks and the metadata
Join ==
    /\ pc = "split"
    /\ course' = CourseJoin(blocks, rddata)
    /\ pc' = "joined"
    /\ UNCHANGED winvars
    /\ UNCHANGED objvars
    /\ UNCHANGED <<input, blocks, rddata, recvars>>

NextTable ==
    \/ Split
    \/ Join

SpecTable == TableInit /\ [][NextTable]_vars

\* the header of a course file, read entry by entry
HdrOffset(c, i) == UnpackI(c, i * 8)

HdrLength(c, i) == UnpackI(c, i * 8 + 4)

\* the layout save produces: metadata of a length that is a multiple of 4, every
\* block (empty ones too) at the end of the one before, nothing behind the last block
CanonicalBlob(c) ==
    /\ HdrOffset(c, 0) >= 112
    /\ (HdrOffset(c, 0) - 112) % 4 = 0
    /\ \A i \in 0..12 : HdrOffset(c, i + 1) = HdrOffset(c, i) + HdrLength(c, i)
    /\ Len(c) = HdrOffset(c, 13) + HdrLength(c, 13)

\* C1 as stated: splitting any course file of the family and joining the parts again
\* gives the file back
C1_RoundTripEveryBlob == pc = "joined" => course = input

\* C1: splitting a course file as loadLevelData does and joining the parts as save
\* does gives the file back byte for byte when the file has the layout save produces
\* (metadata length a multiple of 4, every header offset, also of an empty block, at
\* the end of the block before, no bytes behind the last block)
C1_RoundTripCanonicalBlob == (pc = "joined" /\ CanonicalBlob(input)) => course = input

\* a canonical file with metadata, an empty block and a non-empty block was joined
C1_Witness ==
    /\ pc = "joined"
    /\ CanonicalBlob(input)
    /\ rddata # <<>>
    /\ \E i, j \in BlockIdx : blocks[i] = <<>> /\ blocks[j] # <<>>

\* the length save pads n metadata bytes to
PaddedLen(n) == ((n + 3) \div 4) * 4

\* C2: in the course file save writes, the metadata lies at 0x70 followed by zero
\* bytes up to a multiple of 4, header entry 0 has offset 112 + padded metadata length,
\* every header length is the length of its block, every block lies at its offset,
\* offset[i+1] = offset[i] + length[i] for i in 0..12, and the file is
\* 112 + padded metadata length + the sum of the block lengths long
C2_SaveLayout ==
    pc = "joined" =>
        LET padded == PaddedLen(Len(rddata))
        IN  /\ Slice(course, 112, 112 + Len(rddata)) = rddata
            /\ Slice(course, 112 + Len(rddata), 112 + padded) = Zeros(padded - Len(rddata))
            /\ HdrOffset(course, 0) = 112 + padded
            /\ \A i \in BlockIdx : HdrLength(course, i) = Len(blocks[i])
            /\ \A i \in BlockIdx :
                   Slice(course, HdrOffset(course, i), HdrOffset(course, i) + Len(blocks[i]))
                       = blocks[i]
            /\ \A i \in 0..12 : HdrOffset(course, i + 1) = HdrOffset(course, i) + HdrLength(course, i)
            /\ Len(course) = 112 + padded + SumLen([i \in 1..14 |-> blocks[i - 1]])

\* a file was written whose metadata needed padding and that has an empty block
\* between two non-empty ones
C2_Witness ==
    /\ pc = "joined"
    /\ Len(rddata) % 4 # 0
    /\ \E i, j, k \in BlockIdx :
           i < j /\ j < k /\ blocks[i] # <<>> /\ blocks[j] = <<>> /\ blocks[k] # <<>>

-----------------------------------------------------------------------------
(* Specification of the object layers *)

MaxObjects == 2

\* LevelViewWidget.mousePressEvent, CurrentPaintType <= 3: paint a 1x1 object on
\* the current layer. The constructor renders the object; when that raises, the
\* object is not appended.
PaintObject(limit, CurrentPaintType, CurrentObject, CurrentLayer, clickedx, clickedy) ==
    /\ Editable
    /\ CurrentPaintType <= 3
    /\ CurrentObject # -1
    /\ Len(layers[CurrentLayer + 1]) < limit
    /\ \E obj \in {LevelObjectEditorItem(CurrentPaintType, CurrentObject, CurrentLayer,
                                        clickedx, clickedy, 1, 1)} :
         \E done \in {Renderable(ObjectDefinitions, TilesetSlotsModEnabled, obj)} :
           /\ layers' = IF done THEN [layers EXCEPT ![CurrentLayer + 1] = Append(@, obj)]
                        ELSE layers
           /\ pc' = IF done THEN "edit" ELSE pc
           /\ IF done THEN Edited ELSE UNCHANGED winvars
    /\ UNCHANGED <<input, course, blocks, rddata, recvars, bgdat, ObjectDefinitions,
                   TilesetSlotsModEnabled, deffile, objdef, objdata>>

\* a layer file: records (tileset << 12 | type, x, y, width, height), then 0xFF 0xFF
FileLayer(recs) ==
    Concat([i \in 1..Len(recs) |->
        PackH(recs[i][1]) \o PackH(recs[i][2]) \o PackH(recs[i][3]) \o PackH(recs[i][4])
            \o PackH(recs[i][5])]) \o Fill(2, 255)

\* layer files of archives: objects of the loaded tileset 1 (object 0 exists,
\* object 5 does not) and of the empty slot 0; an object of slot 4; object 300
\* of tileset 1
LayerFiles ==
    { <<FileLayer(<<<<4096, 1, 2, 2, 3>>, <<4101, 4, 2, 1, 2>>>>),
        FileLayer(<<<<0, 0, 0, 2, 1>>>>), FileLayer(<<>>)>>,
      <<FileLayer(<<<<16384, 1, 2, 1, 1>>>>), FileLayer(<<>>), FileLayer(<<>>)>>,
      <<FileLayer(<<>>), FileLayer(<<<<4396, 1, 2, 1, 1>>>>), FileLayer(<<>>)>> }

OpenLayerFile ==
    CanOpen /\ \E f \in LayerFiles : loadArchive(CourseJoin(BaseBlocks, <<>>), f)

PaintObjectStep == \E ln \in {0, 1} : PaintObject(MaxObjects, 1, 0, ln, 3, 4)

PaintLayerSprite == PaintSprite(MaxSprites, 7, 104, 104, PayloadA)

NextLayers ==
    \/ OpenLayerFile
    \/ PaintObjectStep
    \/ PaintLayerSprite
    \/ SaveRecords
    \/ SaveCourse
    \/ Reload

SpecLayers == newLevel /\ [][NextLayers]_vars

\* the last n bytes of b are 0xFF
EndsWithFF(b, n) == Len(b) >= n /\ \A i \in 1..n : b[Len(b) - n + i] = 255

\* C11: after a save, the sprite block of the n sprites is 16n + 4 bytes long and
\* ends with four 0xFF bytes, every layer file of a layer of n objects is 10n + 2
\* bytes long and ends with two 0xFF bytes, and LoadSprites and LoadLayer decode
\* exactly n records from them
C11_ListTerminators ==
    pc = "saved" =>
        /\ Len(blocks[7]) = 16 * Len(sprites) + 4
        /\ EndsWithFF(blocks[7], 4)
        /\ Len(LoadSprites(blocks[7])) = Len(sprites)
        /\ \A idx \in 1..3 :
               /\ Len(bgdat[idx]) = 10 * Len(layers[idx]) + 2
               /\ EndsWithFF(bgdat[idx], 2)
               /\ Len(LoadLayer(idx - 1, bgdat[idx])) = Len(layers[idx])

\* a level with two sprites, a layer of two objects, a layer of one object and an
\* empty layer was saved
C11_Witness ==
    /\ pc = "saved"
    /\ Len(sprites) = 2
    /\ Len(layers[1]) = 2
    /\ Len(layers[2]) = 1
    /\ Len(layers[3]) = 0

\* the slot of the object has no loaded tileset, or the tileset has no such object
UnknownObject(defsAll, o) ==
    \/ o.tileset > 3
    \/ ~defsAll[o.tileset].loaded
    \/ o.type >= Len(defsAll[o.tileset].defs)

\* C20: for every object record of the layer files at hand (slot 0..15, object id
\* 0..4095) whose slot has no loaded tileset or whose tileset defines no such
\* object, RenderObject returns the height x width grid of error markers and does
\* not raise
C20_UnknownObjectErrorGrid ==
    \A idx \in 1..3 : \A i \in 1..(Len(bgdat[idx]) \div 10) :
        LET o == LoadLayer(idx - 1, bgdat[idx])[i]
        IN  UnknownObject(ObjectDefinitions, o) =>
                RenderObject(ObjectDefinitions, TilesetSlotsModEnabled, o.tileset, o.type,
                             o.width, o.height, FALSE) = ErrorDest(o.width, o.height)

-----------------------------------------------------------------------------
(* Specification of the load of blocks that are no whole number of records *)

MaxExtra == 2

\* the blocks the Load* calls parse and the size of their struct
ParsedBlocks == {0, 1, 2, 4, 5, 6, 7, 9, 10, 11, 12}

Stride(k) ==
    IF k = 0 THEN 128
    ELSE IF k \in {1, 6, 11} THEN 20
    ELSE IF k \in {2, 4, 5, 9} THEN 24
    ELSE IF k = 7 THEN 16
    ELSE IF k = 10 THEN 12
    ELSE 8

\* a course with a record in every parsed block: EntranceBlocks, one sprite, one
\* camera profile, the path of LoopBlocks
FullBlocks ==
    [EntranceBlocks EXCEPT
        ![7] = FileSprites(<<<<3, 104, 104, PayloadZ>>>>),
        ![11] = PackCamProfile(1, <<1, 2, 3>>),
        ![12] = LoopBlocks[12],
        ![13] = LoopBlocks[13]]

\* block k with e more bytes, or with its last e bytes missing
Oversized(k, e) == [FullBlocks EXCEPT ![k] = @ \o Fill(e, 7)]

Undersized(k, e) == [FullBlocks EXCEPT ![k] = SubSeq(@, 1, Len(@) - e)]

MalformedFiles ==
    {CourseJoin(Oversized(k, e), <<>>) : k \in ParsedBlocks, e \in 1..MaxExtra}
        \cup {CourseJoin(Undersized(k, e), <<>>) : k \in ParsedBlocks, e \in 1..MaxExtra}

OpenMalformedFile == CanOpen /\ \E c \in MalformedFiles : loadLevelData(c)

NextMalformed ==
    \/ OpenMalformedFile
    \/ SaveRecords
    \/ SaveCourse
    \/ Reload

SpecMalformed == newLevel /\ [][NextMalformed]_vars

\* the whole records of block k
WholeRecords(blks, k) == SubSeq(blks[k], 1, (Len(blks[k]) \div Stride(k)) * Stride(k))

\* the block table with every parsed block cut to its whole records
WholeBlocks(blks) ==
    [k \in BlockIdx |-> IF k \in ParsedBlocks THEN WholeRecords(blks, k) ELSE blks[k]]

-----------------------------------------------------------------------------
(* Specification of ObjectDef.load *)

MaxRecipeLen == 5
MaxOffset == 1

\* the document and the tilesets of a new level, for the specifications that
\* only exercise the object functions
IdleLevel ==
    /\ input = <<>>
    /\ course = <<>>
    /\ blocks = [NoBlocks EXCEPT ![3] = Zeros(8)]
    /\ rddata = <<>>
    /\ info = DefaultInfo
    /\ tilesets = NewTilesets
    /\ options = NewOptions
    /\ entrances = <<>>
    /\ sprites = <<>>
    /\ zones = <<>>
    /\ bounding = <<>>
    /\ bgA = <<>>
    /\ bgB = <<>>
    /\ locations = <<>>
    /\ camprofiles = <<>>
    /\ pathdata = <<>>
    /\ bgdat = NoLayers
    /\ layers = NoLayers
    /\ NewWindow
    /\ disk = NoDisk

\* bytes of definition files: tile cells start with 3 or 7, 133 is a control
\* byte, 254 and 255 are the row and object ends; every byte occurs in every place
RecipeBytes == {3, 7, 133, 254, 255}

Recipes == UNION {[1..n -> RecipeBytes] : n \in 0..MaxRecipeLen}

DecodeInit ==
    /\ IdleLevel
    /\ pc = "recipe"
    /\ deffile \in Recipes
    /\ ObjectDefinitions = CreateTilesets
    /\ TilesetSlotsModEnabled = FALSE
    /\ objdef = [ok |-> FALSE, rows |-> <<>>, offset |-> 0]
    /\ objdata = NoObjData

\* obj.load(deffile, offset, tileoffset)
Decode ==
    /\ pc = "recipe"
    /\ \E offset \in 0..MaxOffset :
           objdef' = [ok |-> ObjectDefLoad(deffile, offset).ok,
                      rows |-> ObjectDefLoad(deffile, offset).rows, offset |-> offset]
    /\ pc' = "decoded"
    /\ UNCHANGED winvars
    /\ UNCHANGED <<input, course, blocks, rddata, recvars, bgdat, layers, ObjectDefinitions,
                   TilesetSlotsModEnabled, deffile, objdata>>

NextDecode == Decode

SpecDecode == DecodeInit /\ [][NextDecode]_vars

\* the cells of a recipe as the format describes them, from the cell boundary p
\* (0-based) on: "row" for 0xFE, "end" for 0xFF, "ctl" for any other byte with
\* bit 0x80, "tile" for three bytes otherwise; "cut" when the buffer ends first
RECURSIVE FormatCells(_, _)
FormatCells(source, p) ==
    IF p >= Len(source) THEN <<[kind |-> "cut", at |-> p]>>
    ELSE IF source[p + 1] = 255 THEN <<[kind |-> "end", at |-> p]>>
    ELSE IF source[p + 1] = 254 THEN <<[kind |-> "row", at |-> p]>> \o FormatCells(source, p + 1)
    ELSE IF source[p + 1] >= 128 THEN <<[kind |-> "ctl", at |-> p]>> \o FormatCells(source, p + 1)
    ELSE IF p + 2 >= Len(source) THEN <<[kind |-> "cut", at |-> p]>>
    ELSE <<[kind |-> "tile", at |-> p]>> \o FormatCells(source, p + 3)

\* the value of a control or tile cell
FormatCell(source, c) ==
    IF c.kind = "ctl" THEN <<source[c.at + 1]>>
    ELSE <<source[c.at + 1], source[c.at + 2] + 256 * (source[c.at + 3] % 4),
           source[c.at + 3] \div 4>>

\* the rows the cells make: one per "row" cell, holding the cells since the row
\* cell before it
FormatRows(source, cells) ==
    LET ends == SelectSeq([i \in 1..Len(cells) |-> i], LAMBDA i : cells[i].kind = "row")
        from(r) == IF r = 1 THEN 1 ELSE ends[r - 1] + 1
    IN  [r \in 1..Len(ends) |->
            [j \in 1..(ends[r] - from(r)) |-> FormatCell(source, cells[from(r) + j - 1])]]

\* C13: ObjectDef.load returns exactly when the cells from start_offset on reach
\* 0xFF at a cell boundary, and then its rows are the rows that the cells make:
\* 0xFE at a cell boundary closes a row, another byte with bit 0x80 is a one-byte
\* control cell, any other byte starts a three-byte tile cell with tile index
\* second byte + 256 * (third byte AND 3) and extra = third byte >> 2
C13_BytecodeDecode ==
    pc = "decoded" =>
        LET cells == FormatCells(deffile, objdef.offset)
        IN  /\ objdef.ok <=> cells[Len(cells)].kind = "end"
            /\ objdef.ok => objdef.rows = FormatRows(deffile, cells)

\* a recipe was decoded into a row that holds a tile cell whose second byte is
\* 0xFE and whose third byte is 0xFF
C13_Witness ==
    /\ pc = "decoded"
    /\ objdef.ok
    /\ \E r \in 1..Len(objdef.rows) : \E j \in 1..Len(objdef.rows[r]) :
           /\ Len(objdef.rows[r][j]) = 3
           /\ objdef.rows[r][j][2] = 254 + 256 * 3
           /\ objdef.rows[r][j][3] = 63

-----------------------------------------------------------------------------
(* Specification of the tileset slots *)

\* ReggieWindow.HandleAreaOptions, accepted with the tileset names `names` chosen
\* in the Tilesets tab and the Loading tab as the dialog shows it: the timer and
\* entrance spin boxes give back the clamped values; a slot with a name is loaded
\* from the Texture folder, a slot set to None is unloaded afterwards; the
\* objects of the layers are rendered again
HandleAreaOptions(names) ==
    /\ Editable
    /\ options' = [options EXCEPT !.timeLimit = SpinValue(@ + 200, 0, 999) - 200,
                                  !.startEntrance = SpinValue(@, 0, 255)]
    /\ tilesets' = names
    /\ LET RECURSIVE Load(_, _)
           Load(defsAll, idx) ==
               IF idx > 3 THEN defsAll
               ELSE Load(IF names[idx + 1] # <<>> THEN LoadTileset(defsAll, idx, names[idx + 1])
                         ELSE defsAll, idx + 1)
           RECURSIVE Unload(_, _)
           Unload(defsAll, idx) ==
               IF idx > 3 THEN defsAll
               ELSE Unload(IF names[idx + 1] = <<>> THEN UnloadTileset(defsAll, idx)
                           ELSE defsAll, idx + 1)
       IN  ObjectDefinitions' = Unload(Load(ObjectDefinitions, 0), 0)
    /\ pc' = "edit"
    /\ Edited
    /\ UNCHANGED <<input, course, blocks, rddata, info, entrances, sprites, zones, bounding,
                   bgA, bgB, locations, camprofiles, pathdata, bgdat, layers,
                   TilesetSlotsModEnabled, deffile, objdef, objdata>>

\* the names the Tilesets tab offers
TilesetChoices == {<<>>, TilesetPa1, TilesetPa2, TilesetPa3}

ChooseTileset ==
    \E idx \in 0..3 : \E fname \in TilesetChoices :
        HandleAreaOptions([tilesets EXCEPT ![idx + 1] = fname])

NextTilesets == ChooseTileset

SpecTilesets == newLevel /\ [][NextTilesets]_vars

\* the index entries of an archive
ArchiveCount(arc) == Len(arc.hd) \div 4

\* C14: for every slot whose tileset has a file in the Texture folder, every object
\* of the file whose recipe decodes is defined in the slot with the rows of its
\* recipe, whether or not another recipe of the file lacks its terminator or is
\* cut short; an object whose recipe does not decode renders as the error grid
C14_CorruptObjectIsolated ==
    \A idx \in 0..3 :
        HasArchive(tilesets[idx + 1]) =>
            LET arc == TextureDir(tilesets[idx + 1])
            IN  \A i \in 0..(ArchiveCount(arc) - 1) :
                    LET ld == ObjectDefLoad(arc.bin, UnpackH(arc.hd, 4 * i))
                    IN  IF ld.ok
                        THEN /\ ObjectDefinitions[idx].loaded
                             /\ i < Len(ObjectDefinitions[idx].defs)
                             /\ ObjectDefinitions[idx].defs[i + 1].rows = ld.rows
                        ELSE RenderObject(ObjectDefinitions, TilesetSlotsModEnabled, idx, i,
                                          1, 1, FALSE) = ErrorDest(1, 1)

-----------------------------------------------------------------------------
(* Specification of RenderObject *)

MaxRows == 3
MaxDim == 4
MaxRowTiles == 2

\* the tile cell j of row i of a recipe: three bytes, tile index 16 * i + j of
\* slot 0, so that every cell of a recipe has its own tile
RecipeCell(cbyte, i, j) == <<cbyte, 16 * i + j, 0>>

\* the rows of standard recipes: one plain cell; one cell with the row repeat
\* flag; a plain, a repeated and a plain cell; no cell; a plain cell and a
\* control cell; two plain cells
StandardRow(kind, i) ==
    CASE kind = 1 -> <<RecipeCell(0, i, 1)>>
      [] kind = 2 -> <<RecipeCell(2, i, 1)>>
      [] kind = 3 -> <<RecipeCell(0, i, 1), RecipeCell(1, i, 2), RecipeCell(0, i, 3)>>
      [] kind = 4 -> <<>>
      [] kind = 5 -> <<RecipeCell(0, i, 1), <<132>>>>
      [] OTHER -> <<RecipeCell(0, i, 1), RecipeCell(0, i, 2)>>

\* the bytes of a recipe: the cells of every row, 0xFE after each row, 0xFF
RecipeOf(rows) ==
    Concat([i \in 1..Len(rows) |-> Concat(rows[i]) \o <<254>>]) \o <<255>>

StandardRecipes ==
    UNION {{RecipeOf([i \in 1..n |-> StandardRow(kinds[i], i)]) : kinds \in [1..n -> 1..6]} :
               n \in 1..MaxRows}

\* a diagonal recipe: the main section starts with the control byte 0x80 + dir
\* and has a tiles in its first row and, when b > 0, a second row of b tiles;
\* when c > 0 a sub section of one row with c tiles follows
DiagonalRows(dir, a, b, c) ==
    <<<<<<128 + dir>>>> \o [j \in 1..a |-> RecipeCell(0, 1, j)]>>
        \o (IF b > 0 THEN <<[j \in 1..b |-> RecipeCell(0, 2, j)]>> ELSE <<>>)
        \o (IF c > 0 THEN <<<<<<132>>>> \o [j \in 1..c |-> RecipeCell(0, 3, j)]>> ELSE <<>>)

DiagonalRecipes ==
    {RecipeOf(DiagonalRows(dir, a, b, c)) :
         dir \in 0..3, a \in 0..MaxRowTiles, b \in 0..MaxRowTiles, c \in 0..MaxRowTiles}

\* a level whose tileset slot 1 holds one object, decoded from deffile
RenderInit ==
    /\ IdleLevel
    /\ pc = "object"
    /\ deffile \in StandardRecipes \cup DiagonalRecipes
    /\ ObjectDefinitions =
           [CreateTilesets EXCEPT ![1] =
               [loaded |-> TRUE,
                defs |-> LoadObjects(IndexFile(<<deffile>>, 0), deffile, 0, <<>>).defs]]
    /\ TilesetSlotsModEnabled = FALSE
    /\ objdef = [ok |-> ObjectDefLoad(deffile, 0).ok, rows |-> ObjectDefLoad(deffile, 0).rows,
                 offset |-> 0]
    /\ objdata = NoObjData

\* ReggieWindow.HandleTilesetSlotsMod: the setting is flipped (no object is in a
\* layer, so none is rendered again)
HandleTilesetSlotsMod ==
    /\ pc = "object"
    /\ TilesetSlotsModEnabled' = ~TilesetSlotsModEnabled
    /\ UNCHANGED winvars
    /\ UNCHANGED <<input, course, blocks, rddata, recvars, bgdat, layers, ObjectDefinitions,
                   deffile, objdef, objdata, pc>>

\* RenderObject(1, 0, width, height, fullslope), as updateObjCache and the object
\* picker call it
Render ==
    /\ pc = "object"
    /\ \E width \in 1..MaxDim : \E height \in 1..MaxDim : \E fullslope \in BOOLEAN :
           objdata' = [tileset |-> 1, objnum |-> 0, width |-> width, height |-> height,
                       fullslope |-> fullslope,
                       r |-> RenderObject(ObjectDefinitions, TilesetSlotsModEnabled, 1, 0,
                                          width, height, fullslope)]
    /\ pc' = "rendered"
    /\ UNCHANGED winvars
    /\ UNCHANGED <<input, course, blocks, rddata, recvars, bgdat, layers, ObjectDefinitions,
                   TilesetSlotsModEnabled, deffile, objdef>>

NextRender == HandleTilesetSlotsMod \/ Render

SpecRender == RenderInit /\ [][NextRender]_vars

\* the object of the render
Rows == objdef.rows

IsStandard == Len(Rows) > 0 /\ Len(Rows[1]) > 0 /\ ~Bit(Rows[1][1][1], 128)

IsDiagonal == Len(Rows) > 0 /\ Len(Rows[1]) > 0 /\ Bit(Rows[1][1][1], 128)

NonEmptyRows == SelectSeq(Rows, LAMBDA row : Len(row) > 0)

\* the partition of n items, of which those of F carry the repeat flag, as index
\* lists in file order
Groups(n, F) ==
    LET idx == [i \in 1..n |-> i]
    IN  [before |-> SelectSeq(idx, LAMBDA i : i \notin F /\ \A j \in F : i < j),
         repeat |-> SelectSeq(idx, LAMBDA i : i \in F),
         after |-> SelectSeq(idx, LAMBDA i : i \notin F /\ \E j \in F : j < i)]

\* the index of the item of position p (0-based) of size positions
SourceOf(g, p, size) ==
    IF g.repeat = <<>> THEN g.before[(p % Len(g.before)) + 1]
    ELSE IF p < Len(g.before) THEN g.before[p + 1]
    ELSE IF p >= size - Len(g.after) THEN g.after[p - size + Len(g.after) + 1]
    ELSE g.repeat[((p - Len(g.before)) % Len(g.repeat)) + 1]

RowGroups ==
    Groups(Len(NonEmptyRows), {i \in 1..Len(NonEmptyRows) : Bit(NonEmptyRows[i][1][1], 2)})

CellGroups(row) == Groups(Len(row), {i \in 1..Len(row) : Bit(row[i][1], 1)})

\* a tile as the grid shows it while the tileset slots mod is on or off
Shown(tile) ==
    IF TilesetSlotsModEnabled /\ 0 < tile /\ tile < 1024
    THEN objdata.tileset * 256 + (tile % 256)
    ELSE tile

\* C15: when RenderObject returns the grid of a standard object, output row y is
\* the rendering, width columns wide, of the non-empty row that the before /
\* repeat / after law names for y; when height >= len(before) + len(after) the
\* first rows are the before rows and the last rows are the after rows, in order
C15_StandardRowSelection ==
    (pc = "rendered" /\ IsStandard /\ objdata.r.ok) =>
        LET g == RowGroups
            h == objdata.height
            line(i) == LET c == RenderStandardRow(NonEmptyRows[i], objdata.width).cells
                       IN  [x \in 1..Len(c) |-> Shown(c[x])]
        IN  /\ \A y \in 0..(h - 1) : objdata.r.dest[y + 1] = line(SourceOf(g, y, h))
            /\ h >= Len(g.before) + Len(g.after) =>
                   /\ \A k \in 1..Len(g.before) : objdata.r.dest[k] = line(g.before[k])
                   /\ \A k \in 1..Len(g.after) :
                          objdata.r.dest[h - Len(g.after) + k] = line(g.after[k])

\* an object with a before, a repeat and an after row was rendered 4 rows high
C15_Witness ==
    /\ pc = "rendered"
    /\ IsStandard
    /\ objdata.r.ok
    /\ objdata.height = 4
    /\ Len(RowGroups.before) = 1
    /\ Len(RowGroups.repeat) = 1
    /\ Len(RowGroups.after) = 1

\* no row and no cell of the object has a repeat flag
NoRepeatFlags ==
    \A i \in 1..Len(NonEmptyRows) : \A j \in 1..Len(NonEmptyRows[i]) :
        ~Bit(NonEmptyRows[i][j][1], 1) /\ ~Bit(NonEmptyRows[i][j][1], 2)

\* the tile index of the cell that the laws name for output cell (x, y)
LawTile(x, y) ==
    LET row == NonEmptyRows[SourceOf(RowGroups, y, objdata.height)]
    IN  row[SourceOf(CellGroups(row), x, objdata.width)][2]

C17_RenderNeverRaises ==
    pc = "rendered" =>
        /\ objdata.r.ok
        /\ Len(objdata.r.dest) = objdata.height
        /\ \A y \in 1..objdata.height : Len(objdata.r.dest[y]) = objdata.width

\* the sections of the diagonal object
MainBlock == GetSlopeSections(Rows)[1]

HasSubBlock == Len(GetSlopeSections(Rows)) > 1

SubBlock == GetSlopeSections(Rows)[2]

StampBlock(st) == IF st.block = "main" THEN MainBlock ELSE SubBlock

\* stamp k of the render covers the cell (x, y)
Covers(k, x, y) ==
    LET st == objdata.r.stamps[k]
    IN  /\ st.y <= y /\ y < st.y + Len(StampBlock(st))
        /\ st.x <= x /\ x < st.x + Len(StampBlock(st)[1])

\* C18: a render of a diagonal object whose main block has a tile returns, and
\* its grid holds -1 in every cell that no stamp covers and elsewhere the tile
\* index of the section cell of the last stamp that covers the cell
C18_DiagonalClipping ==
    (pc = "rendered" /\ IsDiagonal /\ Len(MainBlock[1]) > 0) =>
        /\ objdata.r.ok
        /\ \A y \in 0..(objdata.height - 1) : \A x \in 0..(objdata.width - 1) :
               LET on == {k \in 1..Len(objdata.r.stamps) : Covers(k, x, y)}
               IN  IF on = {} THEN objdata.r.dest[y + 1][x + 1] = -1
                   ELSE LET k == CHOOSE k \in on : \A j \in on : j <= k
                            st == objdata.r.stamps[k]
                        IN  objdata.r.dest[y + 1][x + 1]
                                = StampBlock(st)[y - st.y + 1][x - st.x + 1][2]

\* C19: the stamps of a diagonal object whose main block is bh rows of bw > 0
\* tiles: min or max (fullslope) of height div bh and width div bw iterations
\* when the render returns, never more; iteration i puts the main block at
\* (i * bw, y0 + i * dy) and then the sub-block, when there is one, below the main
\* block (goDown clear) or above it (goDown set)
C19_DiagonalSchedule ==
    (pc = "rendered" /\ IsDiagonal /\ Len(MainBlock[1]) > 0) =>
        LET bh == Len(MainBlock)
            bw == Len(MainBlock[1])
            subHeight == IF HasSubBlock THEN Len(SubBlock) ELSE 0
            goLeft == Bit(Rows[1][1][1], 1)
            goDown == Bit(Rows[1][1][1], 2)
            down == objdata.height \div bh
            across == objdata.width \div bw
            n == IF objdata.fullslope THEN Max(down, across) ELSE Min(down, across)
            dy == IF goLeft = goDown THEN 0 - bh ELSE bh
            y0 == IF ~goLeft /\ ~goDown THEN objdata.height - bh - subHeight
                  ELSE IF goLeft /\ goDown THEN objdata.height - bh
                  ELSE IF goLeft THEN 0
                  ELSE subHeight
            main == SelectSeq(objdata.r.stamps, LAMBDA st : st.block = "main")
            sub == SelectSeq(objdata.r.stamps, LAMBDA st : st.block = "sub")
        IN  /\ objdata.r.ok => Len(main) = n
            /\ Len(main) <= n
            /\ \A i \in 1..Len(main) : main[i].x = (i - 1) * bw /\ main[i].y = y0 + (i - 1) * dy
            /\ Len(sub) = (IF HasSubBlock THEN Len(main) ELSE 0)
            /\ \A i \in 1..Len(sub) :
                   /\ sub[i].y = (IF goDown THEN main[i].y - subHeight ELSE main[i].y + bh)
                   /\ \A k \in 1..Len(objdata.r.stamps) :
                          objdata.r.stamps[k] = main[i] => objdata.r.stamps[k + 1] = sub[i]

\* a wide, low object with a sub-block was rendered with fullslope and stamped
\* more often than its height holds main blocks
C19_Witness ==
    /\ pc = "rendered"
    /\ IsDiagonal
    /\ Len(MainBlock[1]) > 0
    /\ HasSubBlock
    /\ objdata.r.ok
    /\ objdata.fullslope
    /\ Bit(Rows[1][1][1], 2)
    /\ Len(SelectSeq(objdata.r.stamps, LAMBDA st : st.block = "main")) >= 2
    /\ objdata.height \div Len(MainBlock) < 2

-----------------------------------------------------------------------------
(* Specification of the level information *)

\* the value of field i (1 = Creator .. 6 = Password) in the files of the model
FieldValue(i) == <<96 + i>>

InfoKeys == <<KeyCreator, KeyTitle, KeyAuthor, KeyGroup, KeyWebpage, KeyPassword>>

\* a pickle that sets the strings of list, two by two, into a dict
PickleOf(list) ==
    <<128, 2, 125, 40>> \o Concat([i \in 1..Len(list) |-> BinUnicode(list[i])]) \o <<117, 46>>

\* the key and value strings of the six fields, pair i taken from keys[i], vals[i]
PairList(keys, vals) ==
    Concat([i \in 1..Len(keys) |-> <<keys[i], vals[i]>>])

FieldValues == [i \in 1..6 |-> FieldValue(i)]

\* a QString as the PyQt4 editors pickled it: sip._unpickle_type (GLOBAL, put in
\* the memo and fetched from it afterwards), 'PyQt4.QtCore', 'QString', the text
\* in a tuple, REDUCE
LegacyString(str, isFirst) ==
    (IF isFirst
     THEN <<99, 115, 105, 112, 10, 95, 117, 10, 113, 1>>
              \o <<85, Len(StrPyQt4QtCore)>> \o StrPyQt4QtCore \o <<113, 2>>
              \o <<85, Len(StrQString)>> \o StrQString \o <<113, 3>>
     ELSE <<104, 1, 104, 2, 104, 3>>)
        \o BinUnicode(str) \o <<133, 135, 82>>

\* the pickle of a PyQt4 editor: keys as short strings, values as QStrings
LegacyPickleOf(keys, vals) ==
    <<128, 2, 125, 40>>
        \o Concat([i \in 1..Len(keys) |->
              <<85, Len(keys[i])>> \o keys[i] \o LegacyString(vals[i], i = 1)])
        \o <<117, 46>>

DropAt(seq, k) == [i \in 1..(Len(seq) - 1) |-> IF i < k THEN seq[i] ELSE seq[i + 1]]

\* metadata regions of course files: complete pickles with each value either
\* its own or '-'; the pairs in rotated order; a pair missing; a key replaced by
\* another key or by an unknown one; a thirteenth string; a value that is one of
\* the two placeholder strings; a value that is a key; a value fetched from the
\* memo; a fetch of a memo entry that was never put; the PyQt4 form, complete and
\* with a pair missing; every proper prefix of a complete pickle; a string that
\* is not utf-8
MetaStreams ==
    {PickleOf(PairList(InfoKeys, [i \in 1..6 |-> IF i \in D THEN StrDash ELSE FieldValue(i)])) :
         D \in SUBSET (2..6)}
    \cup {PickleOf(PairList([i \in 1..6 |-> InfoKeys[((i + r) % 6) + 1]],
                            [i \in 1..6 |-> FieldValue(((i + r) % 6) + 1)])) : r \in 1..5}
    \cup {PickleOf(PairList(DropAt(InfoKeys, k), DropAt(FieldValues, k))) : k \in 1..6}
    \cup {PickleOf(PairList([InfoKeys EXCEPT ![k] = InfoKeys[j]], FieldValues)) :
              k \in 1..6, j \in 1..6}
    \cup {PickleOf(PairList([InfoKeys EXCEPT ![k] = <<88>>], FieldValues)) : k \in 1..6}
    \cup {PickleOf(PairList(InfoKeys, FieldValues) \o <<StrDash>>)}
    \cup {PickleOf(PairList(InfoKeys, [FieldValues EXCEPT ![k] = v])) :
              k \in 2..3, v \in {StrQString, StrPyQt4QtCore, KeyAuthor}}
    \cup {<<128, 2, 125, 40>> \o BinUnicode(KeyCreator) \o BinUnicode(FieldValue(1))
              \o BinUnicode(KeyTitle) \o BinUnicode(StrDash) \o <<113, 0>>
              \o BinUnicode(KeyAuthor) \o <<104, g>>
              \o Concat([i \in 1..3 |-> BinUnicode(InfoKeys[i + 3]) \o BinUnicode(FieldValue(i + 3))])
              \o <<117, 46>> : g \in 0..1}
    \cup {LegacyPickleOf(InfoKeys, FieldValues)}
    \cup {LegacyPickleOf(DropAt(InfoKeys, k), DropAt(FieldValues, k)) : k \in 1..6}
    \cup {SubSeq(PickleOf(PairList(InfoKeys, FieldValues)), 1, n) :
              n \in 1..(Len(PickleOf(PairList(InfoKeys, FieldValues))) - 1)}
    \cup {<<128, 2, 125, 40>> \o BinUnicode(KeyCreator) \o <<88, 1, 0, 0, 0, 233>>
              \o Concat([i \in 1..5 |-> BinUnicode(InfoKeys[i + 1]) \o BinUnicode(FieldValue(i + 1))])
              \o <<117, 46>>}

\* a course file with the blocks of a new level and the metadata region m
InfoFile(m) == CourseJoin(BaseBlocks, m)

OpenInfoFile ==
    /\ CanOpen
    /\ \E m \in MetaStreams : loadArchive(InfoFile(m), NoLayers)

\* texts typed into the level information dialog: empty, '-', a letter, a
\* letter outside ASCII, and 'QString'
InfoTexts == {<<>>, StrDash, <<97>>, <<233>>, StrQString}

\* ReggieWindow.HandleInfo accepted, after MetaInfoDialog.ChangeButton set the
\* password: the four texts and the password are stored
HandleInfo(title, author, group, webpage, password) ==
    /\ Editable
    /\ info' = [info EXCEPT !.Title = title, !.Author = author, !.Group = group,
                            !.Webpage = webpage, !.Password = password]
    /\ pc' = "edit"
    /\ Edited
    /\ UNCHANGED objvars
    /\ UNCHANGED <<input, course, blocks, rddata, tilesets, options, entrances, sprites, zones,
                   bounding, bgA, bgB, locations, camprofiles, pathdata>>

\* the dialog with a text in one or two of its fields
EditInfo ==
    /\ pc = "new"
    /\ \E t \in InfoTexts : \E u \in InfoTexts : \E f \in 1..5 : \E g \in 1..5 :
        LET txt(k) == IF k = f THEN t ELSE IF k = g THEN u ELSE StrDash
        IN  HandleInfo(txt(1), txt(2), txt(3), txt(4), txt(5))

\* the second part of save when equal value strings are one object
SaveCourseShared == SaveCourseWith(SaveReggieInfoShared(info))

SaveInfo ==
    /\ pc = "edit"
    /\ SaveRecords

NextInfo ==
    \/ OpenInfoFile
    \/ EditInfo
    \/ SaveInfo
    \/ SaveCourse
    \/ SaveCourseShared
    \/ Reload

SpecInfo == newLevel /\ [][NextInfo]_vars

\* the strings DecodeReggieInfo keeps of the metadata region that was read
\* (rddata), without the placeholders; Fail when the region cannot be walked
StreamStrings ==
    LET walk == GenOpsWalk(rddata, 0, <<>>, <<>>)
    IN  [ok |-> walk.ok,
         strings |-> SelectSeq(walk.stack,
                         LAMBDA x : x # StrPyQt4QtCore /\ x # StrQString /\ x # PickleNone)]

\* exactly 12 strings, 6 pairs, whose keys are exactly the six field names
WellFormed(strings) ==
    /\ Len(strings) = 12
    /\ {strings[2 * n - 1] : n \in 1..6} = {InfoKeys[i] : i \in 1..6}

\* the string that follows key in strings
PairedWith(strings, key) == strings[2 * (CHOOSE n \in 1..6 : strings[2 * n - 1] = key)]

\* C21: after a level with a metadata region was loaded, either the region walks
\* to 12 strings that pair the six field names with values and every field holds
\* the value paired with its name, or all six fields hold their defaults
C21_LegacyDecodeAllOrNothing ==
    (pc = "loaded" /\ rddata # <<>>) =>
        IF StreamStrings.ok /\ WellFormed(StreamStrings.strings)
        THEN /\ info.Creator = PairedWith(StreamStrings.strings, KeyCreator)
             /\ info.Title = PairedWith(StreamStrings.strings, KeyTitle)
             /\ info.Author = PairedWith(StreamStrings.strings, KeyAuthor)
             /\ info.Group = PairedWith(StreamStrings.strings, KeyGroup)
             /\ info.Webpage = PairedWith(StreamStrings.strings, KeyWebpage)
             /\ info.Password = PairedWith(StreamStrings.strings, KeyPassword)
        ELSE info = DefaultInfo

\* a PyQt4 pickle with the Author pair missing was loaded; its Title is not taken
C21_Witness ==
    /\ pc = "loaded"
    /\ Len(rddata) > 5
    /\ rddata[5] = 85
    /\ StreamStrings.ok
    /\ Len(StreamStrings.strings) = 10
    /\ KeyAuthor \notin {StreamStrings.strings[i] : i \in 1..10}
    /\ StreamStrings.strings[3] = KeyTitle
    /\ StreamStrings.strings[4] = FieldValue(2)
    /\ info.Title = StrDash

\* C26: loading the file that a save wrote restores Title, Author, Group,
\* Webpage and Password as they were saved, and Creator is ReggieID
C26_InfoRoundTrip ==
    [][(pc = "saved" /\ pc' = "loaded") =>
           /\ info'.Creator = ReggieID
           /\ info'.Title = info.Title
           /\ info'.Author = info.Author
           /\ info'.Group = info.Group
           /\ info'.Webpage = info.Webpage
           /\ info'.Password = info.Password]_vars


-----------------------------------------------------------------------------
(* What save does to the record lists in memory *)

\* the step is the first part of save / the second part of save
IsSaveRecords == pc' = "zonessaved"

IsSaveCourse == pc = "zonessaved" /\ pc' = "saved"

\* the bijections of 1..n
Bijections(n) == {p \in [1..n -> 1..n] : \A i, j \in 1..n : p[i] = p[j] => i = j}

\* sprite s with the zone id that its position gives among the zones zs
Tagged(s, zs) == [s EXCEPT !.zoneID = ZoneIDOrZero(zs, s.objx, s.objy)]

\* after is the list before with every sprite tagged, moved by a bijection that
\* keeps the order of two sprites with the same zone id
StableGrouping(before, after, zs) ==
    /\ Len(after) = Len(before)
    /\ \E p \in Bijections(Len(before)) :
           /\ \A i \in 1..Len(before) : after[p[i]] = Tagged(before[i], zs)
           /\ \A i, j \in 1..Len(before) :
                  (i < j /\ after[p[i]].zoneID = after[p[j]].zoneID) => p[i] < p[j]

\* C24 as stated: over a save the entrance, sprite, zone, location, path and camera
\* profile lists keep their records, their order and their field values
C24_SaveLeavesRecords ==
    [][(IsSaveRecords \/ IsSaveCourse) =>
           /\ entrances' = entrances
           /\ sprites' = sprites
           /\ zones' = zones
           /\ locations' = locations
           /\ pathdata' = pathdata
           /\ camprofiles' = camprofiles]_vars

\* C24: over a save the entrance, location, path and camera profile lists keep their
\* records, order and field values; the zone list keeps them but for negative
\* positions, which become 0; the sprite list is regrouped by zone with the zone id
\* of every sprite assigned
C24_SaveRegroupsSpritesOnly ==
    [][(IsSaveRecords \/ IsSaveCourse) =>
           /\ entrances' = entrances
           /\ locations' = locations
           /\ pathdata' = pathdata
           /\ camprofiles' = camprofiles
           /\ Len(zones') = Len(zones)
           /\ \A i \in 1..Len(zones) :
                  zones'[i] = [zones[i] EXCEPT
                                  !.objx = IF zones[i].objx < 0 THEN 0 ELSE zones[i].objx,
                                  !.objy = IF zones[i].objy < 0 THEN 0 ELSE zones[i].objy]
           /\ IF IsSaveRecords THEN StableGrouping(sprites, sprites', zones)
              ELSE sprites' = sprites]_vars

\* the sprites as the course file that was loaded lists them
FileOrder == LoadSprites(CourseSplit(course)[7])

\* the first part of save has run on the two sprites of a loaded file and left them
\* in the other order
C24_Witness ==
    /\ pc = "zonessaved"
    /\ Len(sprites) = 2
    /\ Len(FileOrder) = 2
    /\ sprites[1].objx = FileOrder[2].objx
    /\ sprites[2].objx = FileOrder[1].objx
    /\ sprites[1].objx # sprites[2].objx

\* C28: SortSpritesByZone leaves a permutation of the sprite list in which every
\* sprite has the zone id of its position (0 without zones), zone ids do not
\* decrease along the list and sprites of one zone keep their order; the sprite
\* block of the same save lists the sprites in this order
C28_StableGrouping ==
    [][IsSaveRecords =>
           /\ StableGrouping(sprites, sprites', zones)
           /\ \A i, j \in 1..Len(sprites') :
                  i < j => sprites'[i].zoneID <= sprites'[j].zoneID
           /\ LET written == LoadSprites(blocks'[7])
              IN  /\ Len(written) = Len(sprites')
                  /\ \A i \in 1..Len(sprites') :
                         /\ written[i].type = sprites'[i].type
                         /\ written[i].objx = sprites'[i].objx
                         /\ written[i].objy = sprites'[i].objy
                         /\ written[i].spritedata[7] = sprites'[i].zoneID]_vars

\* the sort has run on two sprites of different zones that are now in zone order
C28_Witness ==
    /\ pc = "zonessaved"
    /\ Len(zones) = 2
    /\ Len(sprites) = 2
    /\ sprites[1].zoneID < sprites[2].zoneID
    /\ sprites[1].objx < sprites[2].objx

-----------------------------------------------------------------------------
(* Camera profiles and bounding records over save and load cycles *)

\* the step loads the file the last save wrote
IsReload == pc = "saved" /\ pc' = "loaded"

\* C27: a save and a load of the saved file leave the camera profile list and the
\* number of zones as they are, and after every save block 11 holds one 20-byte
\* record per profile and one more when there are profiles, none when there are
\* not, and block 2 holds one 24-byte record per zone and one more when there are
\* profiles
C27_NoAccumulation ==
    [][/\ (IsSaveRecords \/ IsSaveCourse \/ IsReload) =>
              /\ camprofiles' = camprofiles
              /\ Len(zones') = Len(zones)
       /\ IsSaveCourse =>
              LET extra == IF camprofiles' = <<>> THEN 0 ELSE 1
              IN  /\ Len(blocks'[11]) = IF camprofiles' = <<>> THEN 0
                                        ELSE 20 * (Len(camprofiles') + 1)
                  /\ Len(blocks'[2]) = 24 * (Len(zones') + extra)]_vars

\* a level with zones and profiles was saved, loaded (the load decoded one bounding
\* record more than there are zones) and saved again
C27_Witness ==
    /\ pc = "saved"
    /\ camprofiles # <<>>
    /\ Len(zones) >= 1
    /\ Len(bounding) = Len(zones) + 1
    /\ Len(blocks[11]) = 20 * (Len(camprofiles) + 1)

-----------------------------------------------------------------------------
(* Specification of the entrance ids under the editor operations *)

\* EntranceEditorWidget.HandleEntranceIDChanged on the entrance at place idx of the
\* list, with the value i of the spin box, whose range is 0..255
HandleEntranceIDChanged(idx, i) ==
    /\ Editable
    /\ idx \in 1..Len(entrances)
    /\ i \in 0..255
    /\ i # entrances[idx].entid
    /\ entrances' = [entrances EXCEPT ![idx].entid = i]
    /\ pc' = "edit"
    /\ Edited
    /\ UNCHANGED objvars
    /\ UNCHANGED <<input, course, blocks, rddata, info, tilesets, options, sprites, zones,
                   bounding, bgA, bgB, locations, camprofiles, pathdata>>

\* EntranceEditorItem.delete on the entrance at place idx of the list
DeleteEntrance(idx) ==
    /\ Editable
    /\ idx \in 1..Len(entrances)
    /\ entrances' = RemoveAt(entrances, idx - 1)
    /\ pc' = "edit"
    /\ Edited
    /\ UNCHANGED objvars
    /\ UNCHANGED <<input, course, blocks, rddata, info, tilesets, options, sprites, zones,
                   bounding, bgA, bgB, locations, camprofiles, pathdata>>

\* the values typed into the spin box
TypedIDs == {0, 1, 2, 255}

ChangeEntranceIDStep == \E idx \in 1..MaxEntrances, i \in TypedIDs : HandleEntranceIDChanged(idx, i)

DeleteEntranceStep == \E idx \in 1..MaxEntrances : DeleteEntrance(idx)

NextEntranceIds ==
    \/ OpenEntranceFile
    \/ PaintEntranceStep
    \/ ChangeEntranceIDStep
    \/ DeleteEntranceStep

SpecEntranceIds == newLevel /\ [][NextEntranceIds]_vars

\* C25: the entrances of the level have pairwise distinct ids in 0..255
C25_EntranceIdsUnique ==
    \A i, j \in 1..Len(entrances) :
        /\ entrances[i].entid \in 0..255
        /\ i # j => entrances[i].entid # entrances[j].entid

-----------------------------------------------------------------------------
(* Specification of the window: open, new, save, save as, autosave, restore *)

MaxOverride == 2

\* the Stage folder: a.arc and b.arc.LZ hold the same level; c.arc is a U8 file
\* whose node table is cut short; d.arc is an archive without course1.bin; in
\* e.arc block 0 of the course file is 10 bytes long; t.txt is a text file
\* the course file that the save of a new level writes
StageCourse ==
    CourseJoin([BaseBlocks EXCEPT ![7] = SaveSprites(<<>>), ![8] = SaveLoadedSprites(<<>>)],
               SaveReggieInfo(DefaultInfo))

StageFolder ==
    [fn \in FileNames |->
        IF fn = NameArc THEN U8Dump(StageCourse, NoLayers)
        ELSE IF fn = NameLz THEN Compress11LZS(U8Dump(StageCourse, NoLayers))
        ELSE IF fn = NameBad
        THEN [U8Dump(<<>>, NoLayers) EXCEPT !.archive = FALSE, !.hascourse = FALSE]
        ELSE IF fn = NameNoCourse THEN [U8Dump(<<>>, NoLayers) EXCEPT !.hascourse = FALSE]
        ELSE IF fn = NameShort
        THEN U8Dump(CourseJoin([BaseBlocks EXCEPT ![0] = Zeros(10)], <<>>), NoLayers)
        ELSE [NoFile EXCEPT !.exists = TRUE, !.first = 116]]

WindowInit == NewDocument /\ disk = StageFolder

\* the variables of the document
docvars == <<pc, input, course, blocks, rddata, recvars, bgdat, layers, ObjectDefinitions,
             TilesetSlotsModEnabled, deffile, objdef, objdata>>

\* the new LevelUnit of LoadLevel when loadLevelData raised before the course file
\* was split: decompression failed, U8.load failed, or the course file is missing
\* (struct unpack_from on None)
LoadRaised ==
    /\ pc' = "loaderror"
    /\ course' = <<>>
    /\ bgdat' = NoLayers
    /\ blocks' = NoBlocks
    /\ rddata' = <<>>
    /\ info' = DefaultInfo
    /\ tilesets' = <<<<>>, <<>>, <<>>, <<>>>>
    /\ options' = NewOptions
    /\ entrances' = <<>>
    /\ sprites' = <<>>
    /\ zones' = <<>>
    /\ bounding' = <<>>
    /\ bgA' = <<>>
    /\ bgB' = <<>>
    /\ locations' = <<>>
    /\ camprofiles' = <<>>
    /\ pathdata' = <<>>
    /\ layers' = NoLayers
    /\ UNCHANGED <<input, ObjectDefinitions, TilesetSlotsModEnabled, deffile, objdef, objdata>>

\* LevelUnit.loadLevelData(arcdata, 1): decompress when the data starts with 0x11,
\* U8.load, the course file of area 1, then the blocks and the layers
LoadLevelData(arcdata) ==
    LET unpacked == IF StartsWithLz(arcdata) THEN Decompress11LZS(arcdata)
                    ELSE [ok |-> TRUE, data |-> arcdata]
    IN  IF /\ unpacked.ok
           /\ unpacked.data.archive
           /\ unpacked.data.hascourse
           /\ Len(unpacked.data.course) >= 112
        THEN loadCourse(unpacked.data.course, unpacked.data.lays)
        ELSE LoadRaised

\* LevelUnit.newLevel inside LoadLevel
NewLevelLoaded ==
    /\ pc' = "new"
    /\ course' = <<>>
    /\ bgdat' = NoLayers
    /\ blocks' = [NoBlocks EXCEPT ![3] = Zeros(8)]
    /\ rddata' = <<>>
    /\ info' = DefaultInfo
    /\ tilesets' = NewTilesets
    /\ options' = NewOptions
    /\ entrances' = <<>>
    /\ sprites' = <<>>
    /\ zones' = <<>>
    /\ bounding' = <<>>
    /\ bgA' = <<>>
    /\ bgB' = <<>>
    /\ locations' = <<>>
    /\ camprofiles' = <<>>
    /\ pathdata' = <<>>
    /\ layers' = NoLayers
    /\ ObjectDefinitions' = LoadTilesets(CreateTilesets, NewTilesets, 0)
    /\ UNCHANGED <<input, TilesetSlotsModEnabled, deffile, objdef, objdata>>

\* CheckDirty returned True: the level has unsaved changes and the answer of the
\* user was Cancel (discard is the answer Discard)
CheckDirty(discard) == Dirty /\ ~discard

\* the answers to the question of CheckDirty, which is asked while Dirty is set
Answers == IF Dirty THEN BOOLEAN ELSE {TRUE}

\* ReggieWindow.HandleOpenFromFile with the file fn chosen in the dialog; a handler
\* that the user cancels leaves everything as it is
HandleOpenFromFile(fn, discard) ==
    /\ DirtyOverride < MaxOverride
    /\ IF CheckDirty(discard) THEN UNCHANGED vars
       ELSE IF ~IsNSMBLevel(disk[fn])
       THEN /\ ret' = Returned("LoadLevel", "False")
            /\ UNCHANGED <<docvars, Dirty, AutoSaveDirty, DirtyOverride, OverrideSnapping,
                           isCompressed, arcname, disk, AutoSaveSettings, scene>>
       ELSE /\ LoadLevelData(disk[fn])
            /\ LoadLevelWindow(fn, StartsWithLz(disk[fn]))

\* ReggieWindow.HandleNewLevel
HandleNewLevel(discard) ==
    /\ DirtyOverride < MaxOverride
    /\ IF CheckDirty(discard) THEN UNCHANGED vars
       ELSE /\ NewLevelLoaded
            /\ Dirty' = FALSE
            /\ OverrideSnapping' = FALSE
            /\ scene' = "level"
            /\ isCompressed' = FALSE
            /\ arcname' = None
            /\ ret' = Returned("LoadLevel", "True")
            /\ UNCHANGED <<AutoSaveDirty, DirtyOverride, disk, AutoSaveSettings>>

\* LevelUnit.save up to arc._dump(): the sort, the blocks, the course file and the
\* layer files
LevelSave ==
    /\ sprites' = SortSpritesByZone(sprites, zones)
    /\ \E zs \in {SaveZones(zones)} :
         /\ zones' = zs.zones
         /\ \E cam \in {SaveCamProfiles(camprofiles, zs.b2)}, pth \in {SavePaths(pathdata)} :
               blocks' = [blocks EXCEPT ![0] = SaveMetadata(tilesets),
                                        ![1] = SaveOptions(options),
                                        ![6] = SaveEntrances(entrances, zones),
                                        ![7] = SaveSprites(sprites'),
                                        ![8] = SaveLoadedSprites(sprites'),
                                        ![4] = zs.b4, ![5] = zs.b5, ![9] = zs.b9,
                                        ![10] = SaveLocations(locations),
                                        ![11] = cam.b11, ![2] = cam.b2,
                                        ![12] = pth.b12, ![13] = pth.b13]
    /\ course' = CourseJoin(blocks', SaveReggieInfo(info))
    /\ bgdat' = [i \in 1..3 |-> SaveLayer(layers[i])]
    /\ pc' = "saved"
    /\ UNCHANGED <<input, rddata, info, tilesets, options, entrances, bounding, bgA, bgB,
                   locations, camprofiles, pathdata, layers, ObjectDefinitions,
                   TilesetSlotsModEnabled, deffile, objdef, objdata>>

\* what LevelUnit.save(compress) returns, from the course file and the layer files
\* it has just built
SaveData(c, lays, compress, levelCompressed) ==
    IF SaveCompress(compress, levelCompressed) THEN Compress11LZS(U8Dump(c, lays))
    ELSE U8Dump(c, lays)

\* the names typed into the file dialog of HandleSaveAs
SaveNames == {NameArc, NameLz}

\* ReggieWindow.HandleSaveAs called by op, with a name fn typed into the dialog;
\* ioerror: open(fn, 'wb') raises IOError. A cancelled dialog leaves everything
\* as it is.
SaveAs(op) ==
    \/ UNCHANGED vars
    \/ /\ Dirty' = FALSE
       /\ AutoSaveDirty' = FALSE
       /\ LevelSave
       /\ \E fn \in SaveNames, ioerror \in BOOLEAN :
            /\ arcname' = fn
            /\ isCompressed' = EndsWithLz(fn)
            /\ IF ioerror
               THEN /\ ret' = IOFailed(op)
                    /\ UNCHANGED <<disk, AutoSaveSettings>>
               ELSE /\ disk' = [disk EXCEPT
                                   ![fn] = SaveData(course', bgdat', "None", isCompressed')]
                    /\ AutoSaveSettings' = [AutoSaveFilePath |-> fn,
                                            AutoSaveFileData |-> NoData]
                    /\ ret' = Returned(op, "True")
       /\ UNCHANGED <<DirtyOverride, OverrideSnapping, scene>>

HandleSaveAs ==
    /\ Editable
    /\ SaveAs("HandleSaveAs")

\* ReggieWindow.HandleSave
HandleSave ==
    /\ Editable
    /\ IF arcname = None THEN SaveAs("HandleSave")
       ELSE /\ LevelSave
            /\ \E ioerror \in BOOLEAN :
                 IF ioerror
                 THEN /\ ret' = IOFailed("HandleSave")
                      /\ UNCHANGED <<Dirty, AutoSaveDirty, disk, AutoSaveSettings>>
                 ELSE /\ disk' = [disk EXCEPT
                                     ![arcname] = SaveData(course', bgdat', "None", isCompressed)]
                      /\ Dirty' = FALSE
                      /\ AutoSaveDirty' = FALSE
                      /\ AutoSaveSettings' = [AutoSaveFilePath |-> arcname,
                                              AutoSaveFileData |-> NoData]
                      /\ ret' = Returned("HandleSave", "True")
            /\ UNCHANGED <<DirtyOverride, OverrideSnapping, isCompressed, arcname, scene>>

\* ReggieWindow.Autosave, when the timer fires while AutoSaveDirty is set
Autosave ==
    /\ Editable
    /\ AutoSaveDirty
    /\ LevelSave
    /\ AutoSaveSettings' = [AutoSaveFilePath |-> arcname,
                            AutoSaveFileData |-> SaveData(course', bgdat', "False", isCompressed)]
    /\ AutoSaveDirty' = FALSE
    /\ ret' = Returned("Autosave", "None")
    /\ UNCHANGED <<Dirty, DirtyOverride, OverrideSnapping, isCompressed, arcname, disk, scene>>

\* str(AutoSavePath).lower() == 'none'
IsNonePath(path) == path = None \/ [i \in 1..Len(path) |-> Lower(path[i])] = StrNone

\* The program ended without closeEvent and is started again; the settings hold
\* an autosave and the user accepts to restore it: the globals of a new program,
\* ReggieWindow.LoadLevelFromAutosave, that is LoadLevel(None, 1, autosave=True),
\* with LevelUnit.loadLevelFromAutosave and its SetDirty(noautosave=True) called
\* while DirtyOverride is 1
RestoreFromAutosave ==
    /\ AutoSaveSettings.AutoSaveFilePath # StrNone
    /\ AutoSaveSettings.AutoSaveFileData # NoData
    /\ LoadLevelData(AutoSaveSettings.AutoSaveFileData)
    /\ arcname' = IF IsNonePath(AutoSaveSettings.AutoSaveFilePath) THEN None
                  ELSE AutoSaveSettings.AutoSaveFilePath
    /\ isCompressed' = StartsWithLz(AutoSaveSettings.AutoSaveFileData)
    /\ Dirty' = SetDirtyDirty(0 + 1, FALSE)
    /\ AutoSaveDirty' = SetDirtyAuto(0 + 1, FALSE, TRUE)
    /\ DirtyOverride' = IF pc' = "loaded" THEN 0 ELSE 1
    /\ OverrideSnapping' = (pc' # "loaded")
    /\ scene' = IF pc' = "loaded" THEN "level" ELSE "clear"
    /\ ret' = Returned("LoadLevelFromAutosave", IF pc' = "loaded" THEN "True" ELSE "raised")
    /\ UNCHANGED <<disk, AutoSaveSettings>>

\* the level information dialog accepted with the title 'a'
EditTitle == HandleInfo(<<97>>, info.Author, info.Group, info.Webpage, info.Password)

OpenLevelFile == \E fn \in {NameArc, NameLz}, discard \in Answers : HandleOpenFromFile(fn, discard)

OpenAnyFile == \E fn \in FileNames, discard \in Answers : HandleOpenFromFile(fn, discard)

NewStep == \E discard \in Answers : HandleNewLevel(discard)

NextSaving ==
    \/ OpenLevelFile
    \/ EditTitle
    \/ HandleSave
    \/ HandleSaveAs
    \/ Autosave

SpecSaving == WindowInit /\ [][NextSaving]_vars

NextLoading ==
    \/ OpenAnyFile
    \/ NewStep
    \/ EditTitle
    \/ Autosave
    \/ RestoreFromAutosave

SpecLoading == WindowInit /\ [][NextLoading]_vars

(* The compression of the files that the window loads and writes *)

\* a step that loaded a level file
IsLoadedFile == ret' = Returned("LoadLevel", "True") /\ arcname' # None

\* a step in which HandleSave or HandleSaveAs wrote the level file
IsWritten == ret'.op \in {"HandleSave", "HandleSaveAs"} /\ ret'.value = "True"

\* C22: compression state is preserved across load and save. A load records in
\* isCompressed whether the file starts with 0x11 and reads the course file out
\* of the decompressed archive; a save without a compress argument writes a file
\* that starts with 0x11 and holds an LZ stream exactly when isCompressed is set,
\* and a save by name leaves isCompressed as the load set it; an autosave stores
\* uncompressed data and leaves isCompressed unchanged.
C22_CompressionPreserved ==
    [][/\ IsLoadedFile =>
            /\ isCompressed' = (disk[arcname'].first = LzTag)
            /\ course' = disk[arcname'].course
            /\ bgdat' = disk[arcname'].lays
       /\ IsWritten =>
            /\ StartsWithLz(disk'[arcname']) = isCompressed'
            /\ disk'[arcname'].packed = isCompressed'
            /\ Decompress11LZS(disk'[arcname']).data = U8Dump(course', bgdat')
            /\ (arcname # None /\ ret'.op = "HandleSave") => isCompressed' = isCompressed
       /\ ret' = Returned("Autosave", "None") =>
            /\ AutoSaveSettings'.AutoSaveFileData = U8Dump(course', bgdat')
            /\ ~StartsWithLz(AutoSaveSettings'.AutoSaveFileData)
            /\ isCompressed' = isCompressed]_vars

\* an autosave of an edited level that was loaded from the compressed file: the
\* autosave data are not compressed and the level still is
C22_Witness ==
    /\ ret = Returned("Autosave", "None")
    /\ arcname = NameLz
    /\ isCompressed
    /\ StartsWithLz(disk[NameLz])
    /\ info.Title = <<97>>
    /\ AutoSaveSettings.AutoSaveFileData.first = U8Tag
    /\ AutoSaveSettings.AutoSaveFileData.course = course

(* The unsaved-changes flag over failed saves *)

\* C29: a failed save never clears the unsaved-changes flag: when Dirty is set
\* and HandleSave or HandleSaveAs catches an IOError and returns False, Dirty is
\* still set afterwards.
C29_FailedSaveKeepsDirty ==
    [][(Dirty /\ ret'.op \in {"HandleSave", "HandleSaveAs"} /\ ret'.error = "IOError")
          => Dirty']_vars

(* Loads that fail *)

\* a step in which LoadLevel did not load the file: it returned False, or the
\* load raised
IsFailedLoad == ret'.op = "LoadLevel" /\ ret'.value \in {"False", "raised"}

\* C23: a failed load leaves no partial state: the level document, the scene and
\* Dirty, DirtyOverride and OverrideSnapping are as before the load.
C23_FailedLoadLeavesState ==
    [][IsFailedLoad =>
          UNCHANGED <<recvars, layers, scene, Dirty, DirtyOverride, OverrideSnapping>>]_vars

(* The restore from the autosave settings *)

\* C30: a level restored from autosave data is marked unsaved: when
\* LoadLevelFromAutosave has completed, Dirty is set, AutoSaveDirty is not, and
\* DirtyOverride is back to 0.
C30_RestoredIsDirty ==
    ret = Returned("LoadLevelFromAutosave", "True")
        => (Dirty /\ ~AutoSaveDirty /\ DirtyOverride = 0)
====
